---- MODULE Spec2Model ----
(***************************************************************************)
(* GitMigrator: the migration engine (src/core/migration_engine.py) and    *)
(* the destination providers' create_repository / repository_exists        *)
(* (src/providers/destination/*.py), as a state machine.                   *)
(*                                                                         *)
(* One behaviour is one call of MigrationEngine.migrate_repositories on a  *)
(* list of Repository records against one destination provider.  The      *)
(* vendor REST API, the git subprocesses and the file system are the       *)
(* environment: their answers are drawn with \E in each step.              *)
(***************************************************************************)
EXTENDS Integers, Sequences, FiniteSets, TLC

(* ------------------------------ bounds --------------------------------- *)

\* longest batch handed to migrate_repositories
MaxRepos == 2

(* ------------------------------ inputs --------------------------------- *)

DestTypes == {"github", "gitea", "gitlab"}

\* Repository (providers/base.py): the fields the engine reads.  github_name
\* is Optional[str]; None and "" are both falsy and are both written "".
Owner == "alice"
RepositoryRecords ==
    { [owner |-> Owner, name |-> "foo", github_name |-> ""],
      [owner |-> Owner, name |-> "foo", github_name |-> "foo"],
      [owner |-> Owner, name |-> "foo", github_name |-> "baz"],
      [owner |-> Owner, name |-> "bar", github_name |-> ""],
      [owner |-> Owner, name |-> "bar", github_name |-> "foo"] }

RECURSIVE SeqsUpTo(_, _)
SeqsUpTo(S, n) ==
    IF n = 0 THEN { <<>> }
    ELSE LET shorter == SeqsUpTo(S, n - 1)
         IN  shorter \cup { Append(s, x) : s \in { t \in shorter : Len(t) = n - 1 }, x \in S }

TargetNames == {"foo", "bar", "baz"}

\* the working directory of the process when migrate_repositories is called
StartDir == "/work"

(* ------------------- answers of the environment ------------------------ *)

\* An HTTP exchange ends with a response (status), with a
\* requests.RequestException (no response), or with some other exception.
\* For PyGithub a response >= 400 is a GithubException carrying status and
\* data; already_exists says whether its data holds the text "already exists".
Response(s, ae) == [kind |-> "response", status |-> s, already_exists |-> ae]
RequestException == [kind |-> "RequestException", status |-> 0, already_exists |-> FALSE]
OtherException == [kind |-> "Exception", status |-> 0, already_exists |-> FALSE]
NoRequest == [kind |-> "none", status |-> 0, already_exists |-> FALSE]

ProbeOutcomes ==
    { Response(200, FALSE), Response(404, FALSE), Response(500, FALSE),
      RequestException, OtherException }

PostOutcomes ==
    { Response(201, FALSE), Response(400, FALSE), Response(409, FALSE),
      Response(422, FALSE), Response(422, TRUE), Response(500, FALSE),
      RequestException, OtherException }

\* What the vendor can answer to a lookup of name n: 200 only for a
\* repository it holds, 404 only for one it does not; errors at any time.
ServerProbe(store, n, probe) ==
    /\ (probe.kind = "response" /\ probe.status = 200) => store[n] > 0
    /\ (probe.kind = "response" /\ probe.status = 404) => store[n] = 0

\* What the vendor can answer to a creation request for n: 201 only if it
\* holds no such repository, a conflict only if it holds one.
ServerPost(store, n, post) ==
    /\ (post.kind = "response" /\ post.status = 201) => store[n] = 0
    /\ (post.kind = "response" /\ (post.status = 409 \/ post.already_exists)) => store[n] > 0

\* exit of a git subprocess, or the failure to launch it
RunOutcomes == {"zero", "nonzero", "exc"}

(* --------------------- destination providers --------------------------- *)

\* requests.Response.__bool__ is Response.ok: a response is truthy only when
\* its status is below 400; `response = None` (no response) is falsy too.
ResponseTruthy(resp) == resp.kind = "response" /\ resp.status < 400

\* response.raise_for_status(): HTTPError (a RequestException) from 400 up
RaisesForStatus(resp) == resp.kind = "response" /\ resp.status >= 400

\* mutant of GiteaRepositoryExists: a transport error is let out of the probe
GiteaRepositoryExistsUncaught(probe) ==
    IF probe.kind \in {"RequestException", "Exception"} THEN "raise"
    ELSE IF probe.status = 200 THEN "True" ELSE "False"

\* repository_exists answers "True", "False" or lets an exception out ("raise").
GiteaRepositoryExists(probe) ==
    IF probe.kind = "RequestException" THEN "False"
    ELSE IF probe.kind = "Exception" THEN "raise"
    ELSE IF probe.status = 200 THEN "True" ELSE "False"

GitLabRepositoryExists(probe) ==
    IF probe.kind = "RequestException" THEN "False"
    ELSE IF probe.kind = "Exception" THEN "raise"
    ELSE IF probe.status = 200 THEN "True" ELSE "False"

\* user.get_repo(name) returns the repository or raises GithubException
\* (a response of 400 and up); every exception is answered with False.
GitHubRepositoryExists(probe) ==
    IF probe.kind = "response" /\ probe.status < 400 THEN "True"
    ELSE IF probe.kind = "response" /\ probe.status = 404 THEN "False"
    ELSE "False"

\* create_repository: ret is "True", "False", "ProviderError" or "raise" (an
\* exception that is no MigrationError); posted says whether the creation
\* request was issued.  probe answers the existence check, post the creation
\* request, probe2 the second existence check of the 422 / 400 branch.
\* mutant of GiteaCreateRepository: a failed creation request is answered
\* with False instead of ProviderError
GiteaCreateRepositoryNoRaise(probe, post, probe2) ==
    LET exists == GiteaRepositoryExists(probe) IN
    IF exists = "raise" THEN [ret |-> "False", posted |-> FALSE]
    ELSE IF exists = "True" THEN [ret |-> "True", posted |-> FALSE]
    ELSE IF post.kind = "response" /\ ~RaisesForStatus(post)
         THEN [ret |-> "True", posted |-> TRUE]
    ELSE [ret |-> "False", posted |-> TRUE]

GiteaCreateRepository(probe, post, probe2) ==
    LET exists == GiteaRepositoryExists(probe) IN
    IF exists = "raise" THEN [ret |-> "False", posted |-> FALSE]
    ELSE IF exists = "True" THEN [ret |-> "True", posted |-> FALSE]
    ELSE IF post.kind = "Exception" THEN [ret |-> "False", posted |-> TRUE]
    ELSE IF post.kind = "response" /\ ~RaisesForStatus(post)
         THEN [ret |-> "True", posted |-> TRUE]
    ELSE IF ResponseTruthy(post) /\ post.status = 409
         THEN [ret |-> "True", posted |-> TRUE]
    ELSE IF ResponseTruthy(post) /\ post.status = 422
         THEN [ret |-> GiteaRepositoryExists(probe2), posted |-> TRUE]
    ELSE [ret |-> "ProviderError", posted |-> TRUE]

GitLabCreateRepository(probe, post, probe2) ==
    LET exists == GitLabRepositoryExists(probe) IN
    IF exists = "raise" THEN [ret |-> "False", posted |-> FALSE]
    ELSE IF exists = "True" THEN [ret |-> "True", posted |-> FALSE]
    ELSE IF post.kind = "Exception" THEN [ret |-> "False", posted |-> TRUE]
    ELSE IF post.kind = "response" /\ ~RaisesForStatus(post)
         THEN [ret |-> "True", posted |-> TRUE]
    ELSE IF ResponseTruthy(post) /\ post.status = 400
         THEN [ret |-> GitLabRepositoryExists(probe2), posted |-> TRUE]
    ELSE IF ResponseTruthy(post) /\ post.status = 409
         THEN [ret |-> "True", posted |-> TRUE]
    ELSE [ret |-> "ProviderError", posted |-> TRUE]

\* user.create_repo returns, raises GithubException(status, data), or raises
\* something else; the last two arms both end in ProviderError.
GitHubCreateRepository(probe, post, probe2) ==
    LET exists == GitHubRepositoryExists(probe) IN
    IF exists = "True" THEN [ret |-> "True", posted |-> FALSE]
    ELSE IF post.kind = "response" /\ post.status < 400
         THEN [ret |-> "True", posted |-> TRUE]
    ELSE IF post.kind = "response" /\ post.status = 422 /\ post.already_exists
         THEN [ret |-> "True", posted |-> TRUE]
    ELSE IF post.kind = "response"
         THEN [ret |-> "ProviderError", posted |-> TRUE]
    ELSE [ret |-> "ProviderError", posted |-> TRUE]

\* destination_provider.repository_exists
RepositoryExists(dest, probe) ==
    IF dest = "gitea" THEN GiteaRepositoryExists(probe)
    ELSE IF dest = "gitlab" THEN GitLabRepositoryExists(probe)
    ELSE GitHubRepositoryExists(probe)

\* destination_provider.create_repository, by the provider the factory built
CreateRepository(dest, probe, post, probe2) ==
    IF dest = "gitea" THEN GiteaCreateRepository(probe, post, probe2)
    ELSE IF dest = "gitlab" THEN GitLabCreateRepository(probe, post, probe2)
    ELSE GitHubCreateRepository(probe, post, probe2)

(* ---------------------------- the engine ------------------------------- *)

VARIABLES
    dest_type,        \* which DestinationProvider the engine holds
    repositories,     \* the list passed to migrate_repositories
    destRepos,        \* the destination vendor: name -> number of repositories of that name
    createdHere,      \* names whose repository an earlier create_repository of this run created
    i,                \* index of the repository of the for loop (0 before the call)
    pc,               \* position of the engine
    target_name,      \* target_name of the current iteration
    call,             \* the last create_repository call: what it returned and did
    success,          \* the value _migrate_single_repository returns for the current repository
    cwd,              \* the working directory of the process
    original_cwd,     \* original_cwd of _clone_and_push_repository ("" when unset)
    temp_dir,         \* temp_dir of _clone_and_push_repository (0 is None)
    repo_path_exists, \* whether repo_path exists in the scratch directory
    fsDirs,           \* the scratch directories that exist on disk
    steps,            \* the steps run so far for the current repository, with their outcomes
    outcomes,         \* the value returned for each repository processed so far
    results,          \* the results dict, as its items in insertion order
    attempted,        \* the indices whose create_repository was invoked, in order
    urls              \* source_url and dest_url of the current repository ("" when unset)

engineVars == << dest_type, repositories, destRepos, createdHere, i, pc, target_name,
                 call, success, cwd, original_cwd, temp_dir, repo_path_exists, fsDirs,
                 steps, outcomes, results, attempted, urls >>

(* The state of the other parts of the program. Each part has a specification
   of its own further down; while the engine runs they are at rest. *)

VARIABLES
    selected_repos,   \* _rename_repositories_interface: the repositories to rename
    rename_pc,        \* position of the rename interface ("off" while it is not running)
    typed,            \* the line the user typed for the last repository asked
    renamed_repos     \* renamed_repos, the copies with their 'github_name'

renameVars == << selected_repos, rename_pc, typed, renamed_repos >>

RenameOff ==
    /\ selected_repos = << >>
    /\ rename_pc = "off"
    /\ typed = << >>
    /\ renamed_repos = << >>

VARIABLES
    d_type,           \* the DestinationProvider a call is made on directly
    d_pc,             \* "off", "ready", then "probed" or "created"
    d_store,          \* how many repositories named "foo" the vendor holds
    d_probe,          \* the vendor's answer to the existence probe of the call
    d_post,           \* the vendor's answer to the creation request, if one was sent
    d_exists,         \* what repository_exists returned ("raise": an exception left it)
    d_create          \* what create_repository returned, and whether it sent the request

destVars == << d_type, d_pc, d_store, d_probe, d_post, d_exists, d_create >>

DestOff ==
    /\ d_type = "github"
    /\ d_pc = "off"
    /\ d_store = 0
    /\ d_probe = [kind |-> "none", status |-> 0, already_exists |-> FALSE]
    /\ d_post = [kind |-> "none", status |-> 0, already_exists |-> FALSE]
    /\ d_exists = "none"
    /\ d_create = [ret |-> "none", posted |-> FALSE]

VARIABLES
    src_type,         \* main: which SourceProvider the factory built
    m_mode,           \* main: "repos" (--repos given) or "no_interactive"
    m_pc,             \* main: "off", "lookup", "list", "user", "migrate", "exit1"
    repo_specs,       \* args.repos
    looked_up,        \* the specifications looked up so far, with the vendor's answers
    main_repositories, \* the list `repositories` of the --repos branch
    all_repos,        \* all_repos of the other branch
    relisted,         \* the listing get_user_repositories fetched for itself
    user_repos,       \* user_repos of the --no-interactive branch
    handed            \* the list migrate_repositories was called with

mainVars == << src_type, m_mode, m_pc, repo_specs, looked_up, main_repositories,
               all_repos, relisted, user_repos, handed >>

MainOff ==
    /\ src_type = "gitea"
    /\ m_mode = "repos"
    /\ m_pc = "off"
    /\ repo_specs = << >>
    /\ looked_up = << >>
    /\ main_repositories = << >>
    /\ all_repos = << >>
    /\ relisted = << >>
    /\ user_repos = << >>
    /\ handed = << >>

VARIABLES
    l_src,            \* the source whose repositories are listed
    l_pc,             \* "off", "listing", "orgs", "org_repos", "returned", "ProviderError", "raised"
    l_total,          \* how many repositories the vendor holds for the user
    l_orgs,           \* GitHub: the number of organizations of the user
    page,             \* params['page'] (GitHub: the organization of the for loop)
    requested,        \* the requests sent so far, with what each was answered
    l_all             \* all_repos

listVars == << l_src, l_pc, l_total, l_orgs, page, requested, l_all >>

ListOff ==
    /\ l_src = "gitea"
    /\ l_pc = "off"
    /\ l_total = 0
    /\ l_orgs = 0
    /\ page = 0
    /\ requested = << >>
    /\ l_all = << >>

VARIABLES
    c_role,           \* the provider being constructed: "source" or "destination"
    c_type,           \* its variant
    c_config,         \* its config: each key "missing", "empty" or "set"
    c_pc,             \* "off", "new", "keys_ok", "constructed", "ConfigurationError", "raised"
    c_requests        \* the network requests the provider has issued

ctorVars == << c_role, c_type, c_config, c_pc, c_requests >>

CtorOff ==
    /\ c_role = "source"
    /\ c_type = "gitea"
    /\ c_config = [key \in {"url", "token", "username"} |-> "set"]
    /\ c_pc = "off"
    /\ c_requests = 0

VARIABLES
    f_source,         \* ProviderFactory._source_providers, its items in insertion order
    f_dest,           \* ProviderFactory._destination_providers, likewise
    f_calls,          \* the register_*_provider calls made so far
    f_last            \* the last create_*_provider call and how it ended

factoryVars == << f_source, f_dest, f_calls, f_last >>

NoCreate == [role |-> "none", name |-> "", outcome |-> "none", available |-> << >>,
             constructed |-> "none", after |-> 0]

FactoryOff ==
    /\ f_source = << >>
    /\ f_dest = << >>
    /\ f_calls = << >>
    /\ f_last = NoCreate

VARIABLES
    sel_n,            \* InteractiveSelector: len(self.repositories) (0 while it is not running)
    current_index,    \* self.current_index
    current_page,     \* self.current_page
    selected,         \* self.selected
    toggles           \* how many times toggle_current was called

selectorVars == << sel_n, current_index, current_page, selected, toggles >>

SelectorOff ==
    /\ sel_n = 0
    /\ current_index = 0
    /\ current_page = 0
    /\ selected = {}
    /\ toggles = 0

VARIABLES
    p_pc,             \* select_providers: "off", "start", "source", "exclude", "destination",
                      \* "returned", "exit0", "exit1"
    p_registry,       \* the names ProviderFactory holds for each role
    p_env,            \* the five configurations MigrationConfig loads
    configured_source_providers,
    configured_destination_providers,
    available_destinations,
    source_provider,
    destination_provider

providerVars == << p_pc, p_registry, p_env, configured_source_providers,
                   configured_destination_providers, available_destinations,
                   source_provider, destination_provider >>

ProviderOff ==
    /\ p_pc = "off"
    /\ p_registry = [source |-> {}, destination |-> {}]
    /\ p_env = << >>
    /\ configured_source_providers = << >>
    /\ configured_destination_providers = << >>
    /\ available_destinations = << >>
    /\ source_provider = ""
    /\ destination_provider = ""

VARIABLES
    a_pc,             \* main: where the process is ("off" while main is not looked at)
    a_mode,           \* the command line: "setup", "list", "repos", "no_interactive", "interactive"
    a_env_file,       \* whether the .env file exists
    exit_code,        \* "running", "0", "1", or "KeyboardInterrupt" (left main uncaught)
    a_error,          \* the error that ended main, "none" if there was none
    a_started,        \* whether migrate_repositories was called with a repository
    a_results,        \* the values of the results dict
    a_interrupts,     \* whether the user pressed Ctrl-C or the quit key during selection
    a_listed,         \* how many repositories the source listed
    a_selected,       \* how many repositories are selected
    a_prompt          \* how many rename prompts were answered

appVars == << a_pc, a_mode, a_env_file, exit_code, a_error, a_started, a_results,
              a_interrupts, a_listed, a_selected, a_prompt >>

AppOff ==
    /\ a_pc = "off"
    /\ a_mode = "interactive"
    /\ a_env_file = TRUE
    /\ exit_code = "running"
    /\ a_error = "none"
    /\ a_started = FALSE
    /\ a_results = << >>
    /\ a_interrupts = FALSE
    /\ a_listed = 0
    /\ a_selected = 0
    /\ a_prompt = 0

\* the parts that run before the engine is called: factory, provider
\* selection, main and the interactive selector
frontVars == << factoryVars, selectorVars, providerVars, appVars >>

FrontOff == FactoryOff /\ SelectorOff /\ ProviderOff /\ AppOff

\* the parts of the earlier sections, at rest while a front part is looked at
backVars == << engineVars, renameVars, destVars, mainVars, listVars, ctorVars >>

outsideEngine == << renameVars, destVars, mainVars, listVars, ctorVars, frontVars >>

OutsideEngineOff == RenameOff /\ DestOff /\ MainOff /\ ListOff /\ CtorOff /\ FrontOff

vars == << engineVars, outsideEngine >>

\* call: what the call returned (ret), whether it issued the creation request
\* (posted) and whether the vendor created the repository (created); again
\* says that an earlier call of this run had created the same name; post is
\* the vendor's answer to the creation request (NoRequest when none was sent)
NoCall == [ret |-> "none", posted |-> FALSE, created |-> FALSE, again |-> FALSE,
           post |-> NoRequest, name |-> ""]

NoUrls == [source_url |-> "", dest_url |-> ""]

\* the user the destination provider is configured for
DestUsername == "bob"

\* SourceProvider.get_authenticated_clone_url(repository): credentials and
\* host of the provider, then {repository.owner}/{repository.name}.git
GetAuthenticatedCloneUrl(repository) ==
    "https://source/" \o repository.owner \o "/" \o repository.name \o ".git"

\* DestinationProvider.get_authenticated_push_url(name): credentials and host
\* of the provider, then {self.username}/{name}.git
GetAuthenticatedPushUrl(name) ==
    "https://destination/" \o DestUsername \o "/" \o name \o ".git"

\* target_name = repository.github_name or repository.name
TargetName(repository) ==
    IF repository.github_name # "" THEN repository.github_name ELSE repository.name

\* mutant of DisplayName: the arrow and the target are always appended
DisplayNameAlwaysArrow(repository, target) ==
    repository.owner \o "/" \o repository.name \o " -> " \o target

\* display_name = f"{owner}/{name}", plus f" -> {target_name}" when renamed
DisplayName(repository, target) ==
    repository.owner \o "/" \o repository.name
        \o (IF target # repository.name THEN " -> " \o target ELSE "")

Keys(res) == { res[j].key : j \in DOMAIN res }

\* mutant of SetItem: a key the dict already holds keeps its first value
SetItemKeepFirst(res, k, v) ==
    IF k \in Keys(res) THEN res ELSE Append(res, [key |-> k, value |-> v])

\* mutant of SetItem: a new key is put in front of the others
SetItemInFront(res, k, v) ==
    IF k \in Keys(res)
    THEN [ j \in DOMAIN res |-> IF res[j].key = k THEN [key |-> k, value |-> v] ELSE res[j] ]
    ELSE << [key |-> k, value |-> v] >> \o res

\* results[display_name] = value: a new key is appended, a key the dict
\* already holds keeps its place and takes the new value
SetItem(res, k, v) ==
    IF k \in Keys(res)
    THEN [ j \in DOMAIN res |-> IF res[j].key = k THEN [key |-> k, value |-> v] ELSE res[j] ]
    ELSE Append(res, [key |-> k, value |-> v])

GetItem(res, k) == (CHOOSE j \in DOMAIN res : res[j].key = k)

Step(op, out) == [op |-> op, out |-> out]

Init ==
    /\ dest_type \in DestTypes
    /\ repositories \in SeqsUpTo(RepositoryRecords, MaxRepos)
    /\ destRepos \in { [n \in TargetNames |-> 0],
                       [n \in TargetNames |-> IF n = "foo" THEN 1 ELSE 0] }
    /\ createdHere = {}
    /\ i = 0
    /\ pc = "idle"
    /\ target_name = ""
    /\ call = NoCall
    /\ success = FALSE
    /\ cwd = StartDir
    /\ original_cwd = ""
    /\ temp_dir = 0
    /\ repo_path_exists = FALSE
    /\ fsDirs = {}
    /\ steps = << >>
    /\ outcomes = << >>
    /\ results = << >>
    /\ attempted = << >>
    /\ urls = NoUrls
    /\ OutsideEngineOff

\* the engine at rest, while another part of the program is looked at
EngineOff ==
    /\ dest_type = "github"
    /\ repositories = << >>
    /\ destRepos = [n \in TargetNames |-> 0]
    /\ createdHere = {}
    /\ i = 0
    /\ pc = "off"
    /\ target_name = ""
    /\ call = NoCall
    /\ success = FALSE
    /\ cwd = StartDir
    /\ original_cwd = ""
    /\ temp_dir = 0
    /\ repo_path_exists = FALSE
    /\ fsDirs = {}
    /\ steps = << >>
    /\ outcomes = << >>
    /\ results = << >>
    /\ attempted = << >>
    /\ urls = NoUrls

\* every part of the earlier sections at rest
BackOff == EngineOff /\ RenameOff /\ DestOff /\ MainOff /\ ListOff /\ CtorOff

\* migrate_repositories, lines 25-31: an empty list returns {} at once
MigrateRepositories ==
    /\ pc = "idle"
    /\ IF repositories = << >>
       THEN pc' = "done" /\ UNCHANGED i
       ELSE pc' = "loop" /\ i' = 1
    /\ UNCHANGED << outsideEngine, urls, dest_type, repositories, destRepos, createdHere, target_name, call,
                    success, cwd, original_cwd, temp_dir, repo_path_exists, fsDirs,
                    steps, outcomes, results, attempted >>

\* the head of the for loop, lines 32-38: the next repository and its
\* target_name, or `return results` when the list is exhausted
NextRepository ==
    /\ pc = "loop"
    /\ IF i <= Len(repositories)
       THEN /\ target_name' = TargetName(repositories[i])
            /\ pc' = "create"
       ELSE /\ pc' = "done"
            /\ UNCHANGED target_name
    /\ steps' = << >>
    /\ call' = NoCall
    /\ original_cwd' = ""
    /\ temp_dir' = 0
    /\ repo_path_exists' = FALSE
    /\ urls' = NoUrls
    /\ UNCHANGED << outsideEngine, dest_type, repositories, destRepos, createdHere, i, success, cwd,
                    fsDirs, outcomes, results, attempted >>

\* mutant of AfterCreate: an exception of create_repository is caught nowhere
\* and ends migrate_repositories
AfterCreateUncaught(ret) ==
    IF ret = "True" THEN "getcwd" ELSE IF ret = "False" THEN "record" ELSE "done"

\* mutant of AfterCreate: a create_repository that returned False is called again
AfterCreateRetry(ret) ==
    IF ret = "True" THEN "getcwd" ELSE IF ret = "False" THEN "create" ELSE "record"

\* _migrate_single_repository, lines 61-79: only a true result goes on to
\* _clone_and_push_repository; False, MigrationError and any other
\* exception all end the repository with False
AfterCreate(ret) == IF ret = "True" THEN "getcwd" ELSE "record"

\* mutant of AfterClone: the failed clone returns without the finally clause
AfterCloneEarlyReturn(out) == IF out = "zero" THEN "verify" ELSE "record"

\* line 98: a non-zero exit (or an exception, line 119) ends the transfer
AfterClone(out) == IF out = "zero" THEN "verify" ELSE "finally"

\* mutant of AfterVerify: the directory is not looked for after the clone
AfterVerifyTrustExit(exists) == "remote_add"

\* line 103: if not repo_path.exists(): return False
AfterVerify(exists) == IF exists THEN "remote_add" ELSE "finally"

\* mutant of AfterRemoteAdd: the exit status of git remote add is not looked at
AfterRemoteAddIgnoreExit(out) == IF out = "exc" THEN "finally" ELSE "push_all"

\* line 112
AfterRemoteAdd(out) == IF out = "zero" THEN "push_all" ELSE "finally"

\* mutant of AfterPushBranches: a failed branch push only warns, like the tag push
AfterPushBranchesIgnoreExit(out) == IF out = "exc" THEN "finally" ELSE "push_tags"

\* _push_to_destination, line 148: return False before the tag push
AfterPushBranches(out) == IF out = "zero" THEN "push_tags" ELSE "finally"

\* mutant of PushTagsResult: a failed tag push fails the repository
PushTagsResultChecked(out) == out = "zero"

\* _push_to_destination, lines 154-164: the exit status of the tag push is
\* only logged; an exception launching it reaches line 119 and gives False
PushTagsResult(out) == out # "exc"

\* mutant of PushUrlName: the push URL is built from the source name
PushUrlSourceName(repository, target) == repository.name

\* line 108: get_authenticated_push_url(target_name), the name that line 61
\* passed to create_repository
PushUrlName(repository, target) == target

\* mutant of FinallyResult: a cleanup that failed fails the repository
FinallyResultCleanupChecked(result, chdir_ok, rmtree_ok) == result /\ chdir_ok /\ rmtree_ok

\* lines 123-135: both cleanup steps catch and log their own failure, so the
\* finally clause ends normally and the value of the return statement that
\* entered it is the one returned
FinallyResult(result, chdir_ok, rmtree_ok) == result

\* finally, lines 125-128: os.chdir(original_cwd), a failure is logged
RestoreCwd(current, original, chdir_ok) == IF chdir_ok THEN original ELSE current

\* finally, lines 131-135: shutil.rmtree(temp_dir, ignore_errors=True) when
\* temp_dir is set and exists; a removal that fails leaves the directory
RemoveScratch(dirs, tmp, rmtree_ok) ==
    IF tmp # 0 /\ tmp \in dirs
    THEN (IF rmtree_ok THEN dirs \ {tmp} ELSE dirs)
    ELSE dirs

\* destination_provider.create_repository(repository, target_name), line 61,
\* with the vendor's answers, and what _migrate_single_repository makes of it
CreateRepositoryStep ==
    /\ pc = "create"
    /\ \E probe \in ProbeOutcomes, post \in PostOutcomes \cup {NoRequest},
          probe2 \in ProbeOutcomes :
         LET r == CreateRepository(dest_type, probe, post, probe2)
             creates == r.posted /\ post.kind = "response" /\ post.status = 201
             store == IF creates THEN [destRepos EXCEPT ![target_name] = @ + 1]
                      ELSE destRepos
         IN  /\ ServerProbe(destRepos, target_name, probe)
             /\ r.posted <=> (post # NoRequest)
             /\ r.posted => ServerPost(destRepos, target_name, post)
             /\ ServerProbe(store, target_name, probe2)
             /\ destRepos' = store
             /\ createdHere' = IF creates THEN createdHere \cup {target_name}
                               ELSE createdHere
             /\ call' = [ret |-> r.ret, posted |-> r.posted, created |-> creates,
                         again |-> target_name \in createdHere, post |-> post,
                         name |-> target_name]
             /\ steps' = Append(steps, Step("create", r.ret))
             /\ pc' = AfterCreate(r.ret)
             /\ success' = FALSE
    /\ attempted' = Append(attempted, i)
    /\ UNCHANGED << outsideEngine, urls, dest_type, repositories, i, target_name, cwd, original_cwd,
                    temp_dir, repo_path_exists, fsDirs, outcomes, results >>

\* _clone_and_push_repository, lines 83-84: original_cwd = os.getcwd(), outside
\* the try; an exception here is caught by _migrate_single_repository, line 73
GetCwd ==
    /\ pc = "getcwd"
    /\ \E ok \in BOOLEAN :
         IF ok
         THEN /\ original_cwd' = cwd
              /\ pc' = "mkdtemp"
              /\ steps' = Append(steps, Step("getcwd", "ok"))
         ELSE /\ pc' = "record"
              /\ steps' = Append(steps, Step("getcwd", "exc"))
              /\ UNCHANGED original_cwd
    /\ success' = FALSE
    /\ UNCHANGED << outsideEngine, urls, dest_type, repositories, destRepos, createdHere, i, target_name, call,
                    cwd, temp_dir, repo_path_exists, fsDirs, outcomes, results, attempted >>

\* line 88: temp_dir = tempfile.mkdtemp(...), a fresh directory
Mkdtemp ==
    /\ pc = "mkdtemp"
    /\ \E ok \in BOOLEAN :
         IF ok
         THEN /\ temp_dir' = i
              /\ fsDirs' = fsDirs \cup {i}
              /\ pc' = "clone"
              /\ steps' = Append(steps, Step("mkdtemp", "ok"))
         ELSE /\ pc' = "finally"
              /\ steps' = Append(steps, Step("mkdtemp", "exc"))
              /\ UNCHANGED << temp_dir, fsDirs >>
    /\ UNCHANGED << outsideEngine, urls, dest_type, repositories, destRepos, createdHere, i, target_name, call,
                    success, cwd, original_cwd, repo_path_exists, outcomes, results,
                    attempted >>

\* lines 92-100: the clone URL, then git clone --mirror in the scratch directory
Clone ==
    /\ pc = "clone"
    /\ \E url_ok \in BOOLEAN, out \in RunOutcomes, dir \in BOOLEAN :
         IF ~url_ok
         THEN /\ out = "exc" /\ ~dir
              /\ steps' = Append(steps, Step("clone_url", "exc"))
              /\ pc' = "finally"
              /\ UNCHANGED << repo_path_exists, urls >>
         ELSE /\ (out # "zero") => ~dir
              /\ urls' = [urls EXCEPT !.source_url = GetAuthenticatedCloneUrl(repositories[i])]
              /\ steps' = Append(steps, Step("clone", out))
              /\ pc' = AfterClone(out)
              /\ repo_path_exists' = dir
    /\ UNCHANGED << outsideEngine, dest_type, repositories, destRepos, createdHere, i, target_name, call,
                    success, cwd, original_cwd, temp_dir, fsDirs, outcomes, results,
                    attempted >>

\* lines 102-105: the cloned directory is looked for even after exit 0
Verify ==
    /\ pc = "verify"
    /\ steps' = Append(steps, Step("verify", IF repo_path_exists THEN "ok" ELSE "missing"))
    /\ pc' = AfterVerify(repo_path_exists)
    /\ UNCHANGED << outsideEngine, urls, dest_type, repositories, destRepos, createdHere, i, target_name, call,
                    success, cwd, original_cwd, temp_dir, repo_path_exists, fsDirs,
                    outcomes, results, attempted >>

\* lines 107-114: the push URL, then git remote add destination
RemoteAdd ==
    /\ pc = "remote_add"
    /\ \E url_ok \in BOOLEAN, out \in RunOutcomes :
         IF ~url_ok
         THEN /\ out = "exc"
              /\ steps' = Append(steps, Step("push_url", "exc"))
              /\ pc' = "finally"
              /\ UNCHANGED urls
         ELSE /\ urls' = [urls EXCEPT !.dest_url = GetAuthenticatedPushUrl(
                                         PushUrlName(repositories[i], target_name))]
              /\ steps' = Append(steps, Step("remote_add", out))
              /\ pc' = AfterRemoteAdd(out)
    /\ UNCHANGED << outsideEngine, dest_type, repositories, destRepos, createdHere, i, target_name, call,
                    success, cwd, original_cwd, temp_dir, repo_path_exists, fsDirs,
                    outcomes, results, attempted >>

\* _push_to_destination, lines 145-150: git push --all destination
PushBranches ==
    /\ pc = "push_all"
    /\ \E out \in RunOutcomes :
         /\ steps' = Append(steps, Step("push_all", out))
         /\ pc' = AfterPushBranches(out)
    /\ UNCHANGED << outsideEngine, urls, dest_type, repositories, destRepos, createdHere, i, target_name, call,
                    success, cwd, original_cwd, temp_dir, repo_path_exists, fsDirs,
                    outcomes, results, attempted >>

\* _push_to_destination, lines 153-164: git push --tags destination, return True
PushTags ==
    /\ pc = "push_tags"
    /\ \E out \in RunOutcomes :
         /\ steps' = Append(steps, Step("push_tags", out))
         /\ success' = PushTagsResult(out)
    /\ pc' = "finally"
    /\ UNCHANGED << outsideEngine, urls, dest_type, repositories, destRepos, createdHere, i, target_name, call,
                    cwd, original_cwd, temp_dir, repo_path_exists, fsDirs, outcomes,
                    results, attempted >>

\* the finally clause, lines 123-135, run on every way out of the try
Finally ==
    /\ pc = "finally"
    /\ \E chdir_ok \in BOOLEAN, rmtree_ok \in BOOLEAN :
         /\ (temp_dir = 0) => rmtree_ok
         /\ cwd' = RestoreCwd(cwd, original_cwd, chdir_ok)
         /\ fsDirs' = RemoveScratch(fsDirs, temp_dir, rmtree_ok)
         /\ steps' = Append(steps, Step("cleanup",
                        IF temp_dir = 0 THEN "nothing"
                        ELSE IF rmtree_ok THEN "removed" ELSE "left"))
         /\ success' = FinallyResult(success, chdir_ok, rmtree_ok)
    /\ pc' = "record"
    /\ UNCHANGED << outsideEngine, urls, dest_type, repositories, destRepos, createdHere, i, target_name, call,
                    original_cwd, temp_dir, repo_path_exists, outcomes,
                    results, attempted >>

\* mutant of RecordResult: the loop is left at the first repository that failed
RecordResultStopOnFailure ==
    /\ pc = "record"
    /\ results' = SetItem(results, DisplayName(repositories[i], target_name), success)
    /\ outcomes' = Append(outcomes, success)
    /\ i' = i + 1
    /\ pc' = IF success THEN "loop" ELSE "done"
    /\ UNCHANGED << outsideEngine, urls, dest_type, repositories, destRepos, createdHere, target_name, call,
                    success, cwd, original_cwd, temp_dir, repo_path_exists, fsDirs,
                    steps, attempted >>

\* migrate_repositories, lines 41-52: results[display_name] = success (False
\* from the except arm), then the next iteration
RecordResult ==
    /\ pc = "record"
    /\ results' = SetItem(results, DisplayName(repositories[i], target_name), success)
    /\ outcomes' = Append(outcomes, success)
    /\ i' = i + 1
    /\ pc' = "loop"
    /\ UNCHANGED << outsideEngine, urls, dest_type, repositories, destRepos, createdHere, target_name, call,
                    success, cwd, original_cwd, temp_dir, repo_path_exists, fsDirs,
                    steps, attempted >>

Next ==
    \/ MigrateRepositories
    \/ NextRepository
    \/ CreateRepositoryStep
    \/ GetCwd
    \/ Mkdtemp
    \/ Clone
    \/ Verify
    \/ RemoteAdd
    \/ PushBranches
    \/ PushTags
    \/ Finally
    \/ RecordResult

Spec == Init /\ [][Next]_vars

(* ============================ properties ================================ *)

N == Len(repositories)

\* the display key of the k-th repository of the list
KeyOf(k) == DisplayName(repositories[k], TargetName(repositories[k]))

\* the value the results dict holds for key k
ValueOf(k) == results[GetItem(results, k)].value

HasStep(op, out) == \E p \in DOMAIN steps : steps[p] = Step(op, out)
RanStep(op) == \E p \in DOMAIN steps : steps[p].op = op
LastStep == steps[Len(steps)]

\* the indices 1..n in order
UpTo(n) == [k \in 1..n |-> k]

\* the last index of the list that has the display key of the k-th repository
LastWithKey(k) == CHOOSE m \in 1..N : KeyOf(m) = KeyOf(k) /\ \A q \in (m+1)..N : KeyOf(q) # KeyOf(k)

\* the first index of the list whose repository has display key key
FirstWithKey(key) == CHOOSE m \in 1..N : KeyOf(m) = key /\ \A q \in 1..(m-1) : KeyOf(q) # key

(* ------------------------------- C1 ------------------------------------ *)
\* C1: when migrate_repositories returns, create_repository has been invoked for
\* every repository of the list, in particular for every one after a repository
\* that failed, and the mapping holds a result under every repository's key.
C1_BatchSurvivesFailure ==
    pc = "done" =>
        /\ attempted = UpTo(N)
        /\ Len(outcomes) = N
        /\ \A k \in 1..N : KeyOf(k) \in Keys(results)

\* a batch whose first repository failed and whose last was still migrated
C1_Witness ==
    /\ pc = "done"
    /\ N = MaxRepos
    /\ outcomes[1] = FALSE
    /\ outcomes[N] = TRUE
    /\ attempted = UpTo(N)

(* ------------------------------- C2 ------------------------------------ *)
\* C2 as stated: the mapping migrate_repositories returns has as many entries
\* as the list has repositories.
C2_OneEntryPerRepository ==
    pc = "done" => Len(results) = N

\* C2 amended: the mapping holds exactly one entry per distinct display key of
\* the list (so as many entries as repositories exactly when the keys are
\* pairwise distinct), and the value under a key is the outcome of the last
\* repository of the list with that key.
C2_OneEntryPerDisplayKey ==
    pc = "done" =>
        /\ Len(results) = Cardinality({ KeyOf(k) : k \in 1..N })
        /\ \A a, b \in DOMAIN results : results[a].key = results[b].key => a = b
        /\ Keys(results) = { KeyOf(k) : k \in 1..N }
        /\ \A k \in 1..N : ValueOf(KeyOf(k)) = outcomes[LastWithKey(k)]
        /\ (Len(results) = N <=> \A a, b \in 1..N : KeyOf(a) = KeyOf(b) => a = b)

\* the same repository twice, failing the first time and migrated the second
C2_Witness ==
    /\ pc = "done"
    /\ N = 2
    /\ KeyOf(1) = KeyOf(2)
    /\ outcomes = << FALSE, TRUE >>
    /\ Len(results) = 1

(* ------------------------------- C3 ------------------------------------ *)
\* C3 as stated: once an attempt that created its scratch directory is over,
\* that directory no longer exists and the working directory is the recorded one.
C3_ScratchGoneAndCwdRestored ==
    (pc = "record" /\ temp_dir # 0) =>
        /\ temp_dir \notin fsDirs
        /\ cwd = original_cwd

\* C3 amended: once such an attempt is over, whichever way it ended, the finally
\* clause has run: the working directory is the recorded one, and the scratch
\* directory has been removed unless its removal failed (the removal is tried
\* once and its errors are ignored).
C3_CleanupAlwaysRuns ==
    (pc = "record" /\ temp_dir # 0) =>
        /\ cwd = original_cwd
        /\ LastStep.op = "cleanup"
        /\ LastStep.out \in {"removed", "left"}
        /\ (LastStep.out = "removed" => temp_dir \notin fsDirs)

\* a clone that failed, after which the scratch directory was removed
C3_Witness ==
    /\ pc = "record"
    /\ temp_dir # 0
    /\ HasStep("clone", "nonzero")
    /\ temp_dir \notin fsDirs
    /\ cwd = original_cwd

(* ------------------------------- C4 ------------------------------------ *)

\* the place of each step in PENDING -> DEST_CREATED -> CLONED -> REMOTE_ADDED -> PUSHED
Rank(op) ==
    CASE op = "create" -> 1
      [] op = "getcwd" -> 2
      [] op = "mkdtemp" -> 3
      [] op \in {"clone_url", "clone"} -> 4
      [] op = "verify" -> 5
      [] op \in {"push_url", "remote_add"} -> 6
      [] op = "push_all" -> 7
      [] op = "push_tags" -> 8
      [] op = "cleanup" -> 9

TransferOps == {"clone", "remote_add", "push_all", "push_tags"}

\* a step after which the repository is FAILED
Failed(st) ==
    /\ st.op \notin {"push_tags", "cleanup"}
    /\ st.out \notin {"True", "ok", "zero"}

Before(p, op, out) == \E q \in 1..(p-1) : steps[q] = Step(op, out)

\* C4: the steps of one repository run in the order create, clone, remote-add,
\* branch push, tag push, each at most once; the clone only after
\* create_repository returned true, remote-add only after the clone exited 0
\* (and its directory was found), the branch push only after remote-add
\* exited 0; and after a failed step no clone, remote-add or push is run.
C4_StateOrder ==
    \A p \in DOMAIN steps :
        /\ \A q \in 1..(p-1) : Rank(steps[q].op) < Rank(steps[p].op)
        /\ steps[p].op = "clone" => Before(p, "create", "True")
        /\ steps[p].op = "remote_add" =>
               Before(p, "clone", "zero") /\ Before(p, "verify", "ok")
        /\ steps[p].op = "push_all" => Before(p, "remote_add", "zero")
        /\ steps[p].op = "push_tags" => Before(p, "push_all", "zero")
        /\ \A q \in 1..(p-1) : Failed(steps[q]) => steps[p].op \notin TransferOps

\* a repository taken through every state, and one stopped by remote-add
C4_Witness ==
    /\ pc = "record"
    /\ i = 2
    /\ outcomes = << TRUE >>
    /\ HasStep("remote_add", "nonzero")
    /\ LastStep.op = "cleanup"

(* ------------------------------- C5 ------------------------------------ *)
\* C5: when git push --all exits non-zero the tag push is not run, the
\* repository's result is false, and false is what the mapping records.
C5_BranchPushFailureIsFatal ==
    HasStep("push_all", "nonzero") =>
        /\ ~RanStep("push_tags")
        /\ ~success
        /\ pc = "loop" =>
              /\ outcomes[i - 1] = FALSE
              /\ ValueOf(KeyOf(i - 1)) = FALSE

\* the result of a repository whose branch push failed has been recorded
C5_Witness ==
    /\ pc = "loop"
    /\ HasStep("push_all", "nonzero")
    /\ HasStep("cleanup", "removed")

(* ------------------------------- C6 ------------------------------------ *)
\* C6: when the branch push exits 0, the result of the repository is true
\* whether the tag push exits 0 or not.
C6_TagPushFailureIsBenign ==
    \A out \in {"zero", "nonzero"} :
        (HasStep("push_all", "zero") /\ HasStep("push_tags", out)) =>
            /\ success
            /\ pc = "loop" =>
                  /\ outcomes[i - 1] = TRUE
                  /\ ValueOf(KeyOf(i - 1)) = TRUE

\* the result of a repository whose tag push failed has been recorded
C6_Witness ==
    /\ pc = "loop"
    /\ HasStep("push_all", "zero")
    /\ HasStep("push_tags", "nonzero")
    /\ ValueOf(KeyOf(i - 1)) = TRUE

(* ------------------------------- C7 ------------------------------------ *)

\* the keys of the mapping come in the order in which the list first has them
C7_InsertionOrder ==
    \A a, b \in DOMAIN results :
        a < b => FirstWithKey(results[a].key) < FirstWithKey(results[b].key)

\* the engine turns to another repository only from the end of the previous
\* one, after its cleanup when it had a scratch directory, and to the next one
C7_OneAtATime ==
    /\ (i' # i /\ i # 0) =>
          /\ pc = "record"
          /\ i' = i + 1
          /\ (temp_dir # 0 => LastStep.op = "cleanup")
    /\ pc' = "create" =>
          /\ pc = "loop"
          /\ attempted = UpTo(i - 1)
          /\ Len(outcomes) = i - 1
    /\ attempted' # attempted => attempted' = UpTo(i)

\* C7: repositories are processed one at a time in the order of the list: every
\* step of a repository, its cleanup included, is over before create_repository
\* is invoked for the next, and the keys of the result mapping are in the
\* order of the list.
C7_Sequential ==
    /\ [](Keys(results) \subseteq { KeyOf(k) : k \in 1..N } => C7_InsertionOrder)
    /\ [][C7_OneAtATime]_vars

\* two repositories with different keys, both recorded
C7_Witness ==
    /\ pc = "done"
    /\ N = 2
    /\ Len(results) = 2
    /\ results[1].key = KeyOf(1)
    /\ results[2].key = KeyOf(2)
    /\ outcomes = << FALSE, TRUE >>

(* ------------------------------- C8 ------------------------------------ *)
\* C8 as stated: a create_repository for a name that an earlier call of the
\* run created returns true, sends no creation request, and leaves the
\* destination with exactly one repository of that name.
C8_SecondCreateIsNoOp ==
    call.again =>
        /\ call.ret = "True"
        /\ ~call.posted
        /\ destRepos[target_name] = 1

(* ------------------------------- C9 ------------------------------------ *)

\* the already-exists conflict of each vendor: 422 with the text for GitHub,
\* 409 for Gitea and GitLab
Conflict(dest, post) ==
    /\ post.kind = "response"
    /\ IF dest = "github" THEN post.status = 422 /\ post.already_exists
       ELSE post.status = 409

\* C9 as stated: a creation request answered with the vendor's already-exists
\* conflict makes create_repository return true, and the engine goes on to the
\* transfer instead of recording a failure.
C9_ConflictIsSuccess ==
    (call.posted /\ Conflict(dest_type, call.post)) =>
        /\ call.ret = "True"
        /\ HasStep("create", "True")
        /\ Len(steps) = 1 => pc = "getcwd"

(* ------------------------------- C10 ----------------------------------- *)

ExceptionOutcomes == {"exc", "ProviderError", "raise"}

\* C10: a repository during whose processing an exception was raised gets the
\* result false, and the exception does not end migrate_repositories: it
\* returns only after create_repository was invoked for every repository and a
\* result was recorded for each.
C10_ExceptionsBecomeFalse ==
    /\ (\E p \in DOMAIN steps : steps[p].out \in ExceptionOutcomes) =>
          /\ ~success
          /\ pc = "loop" =>
                /\ outcomes[i - 1] = FALSE
                /\ ValueOf(KeyOf(i - 1)) = FALSE
    /\ pc = "done" =>
          /\ attempted = UpTo(N)
          /\ Len(outcomes) = N

\* the first repository of two ended by a ProviderError of create_repository,
\* recorded as false, and the loop about to take the second
C10_Witness ==
    /\ pc = "loop"
    /\ i = 2
    /\ N = 2
    /\ HasStep("create", "ProviderError")
    /\ outcomes = << FALSE >>
    /\ ValueOf(KeyOf(1)) = FALSE

(* ------------------------------- C11 ---------------------------------- *)

\* C11: no operation is retried. Within one repository each operation
\* (create_repository, the mirror clone, the remote add, the branch push, the
\* tag push, and every step between them) is run at most once, no repository
\* has create_repository invoked twice, and a create_repository that returned
\* False or raised is the repository's only step: the repository goes
\* straight to its False result.
C11_NoRetry ==
    /\ \A p, q \in DOMAIN steps : steps[p].op = steps[q].op => p = q
    /\ \A p, q \in DOMAIN attempted : attempted[p] = attempted[q] => p = q
    /\ (steps # << >> /\ steps[1].out # "True") =>
          /\ steps[1].op = "create"
          /\ Len(steps) = 1
          /\ pc \in {"record", "loop"}
          /\ ~success
          /\ pc = "loop" => outcomes[Len(outcomes)] = FALSE

\* two repositories in a row whose create_repository failed, one by a False
\* result and one by an exception, each after a single attempt
C11_Witness ==
    /\ pc = "loop"
    /\ attempted = << 1, 2 >>
    /\ outcomes = << FALSE, FALSE >>
    /\ steps = << Step("create", "ProviderError") >>
    /\ call.posted

(* ------------------------------- C12 ---------------------------------- *)

\* the display key the claim expects for a repository
C12_Plain(r) == r.owner \o "/" \o r.name

C12_Expected(r) ==
    IF r.github_name \in {"", r.name}
    THEN C12_Plain(r)
    ELSE C12_Plain(r) \o " -> " \o r.github_name

\* C12: a repository whose rename target is unset or equal to its source
\* name is created under its source name and recorded under exactly
\* "owner/name"; the results hold the arrow suffix for a repository if and
\* only if its target name differs from its source name.
C12_UnrenamedKeepsName ==
    /\ (pc \notin {"idle", "loop", "done"} /\ repositories[i].github_name \in {"", repositories[i].name})
          => target_name = repositories[i].name
    /\ (pc \notin {"idle", "loop", "done"} /\ repositories[i].github_name \notin {"", repositories[i].name})
          => target_name = repositories[i].github_name
    /\ Keys(results) = { C12_Expected(repositories[k]) : k \in 1..Len(outcomes) }

\* an unrenamed repository, one whose target equals its name and a renamed
\* one have been recorded: two keys, one of them with the arrow
C12_Witness ==
    /\ pc = "done"
    /\ Len(outcomes) = 2
    /\ repositories[1].github_name = repositories[1].name
    /\ repositories[2].github_name = "baz"
    /\ Keys(results) = { "alice/foo", "alice/foo -> baz" }

(* ------------------------------- C14 ---------------------------------- *)

\* the creation request failed: no response, or a response of 400 and up
C14_PostFailed(post) == post.kind # "response" \/ post.status >= 400

\* C14 as stated: every failed creation request that is no already-exists
\* conflict makes create_repository raise ProviderError; it returns neither
\* true nor false.
C14_FailureIsProviderError ==
    (call.posted /\ C14_PostFailed(call.post) /\ ~Conflict(dest_type, call.post))
        => call.ret = "ProviderError"

\* C14: a failed creation request that is no already-exists conflict never
\* makes create_repository return true. A network error and an HTTP error
\* status (an authentication error among them) raise ProviderError in every
\* provider; an exception of another kind raises ProviderError in the GitHub
\* provider and is answered with False, without raising, in the Gitea and
\* GitLab providers. The engine records the repository as failed either way.
C14_FailureNeverTrue ==
    (call.posted /\ C14_PostFailed(call.post) /\ ~Conflict(dest_type, call.post)) =>
        /\ call.ret # "True"
        /\ call.post.kind \in {"RequestException", "response"} => call.ret = "ProviderError"
        /\ call.post.kind = "Exception" =>
              call.ret = (IF dest_type = "github" THEN "ProviderError" ELSE "False")
        /\ steps = << Step("create", call.ret) >>
        /\ pc \in {"record", "loop"}
        /\ ~success

\* the Gitea provider answered an unexpected exception of the creation
\* request with False, and the repository is about to be recorded as failed
C14_Witness ==
    /\ dest_type = "gitea"
    /\ pc = "record"
    /\ call.posted
    /\ call.post = OtherException
    /\ call.ret = "False"
    /\ ~success

(* ================== calls on a destination provider ==================== *)
(* repository_exists and create_repository called on a provider, with every
   answer the vendor can give.                                              *)

\* the vendor's repositories by name
DestStore == [n \in TargetNames |-> IF n = "foo" THEN d_store ELSE 0]

InitDest ==
    /\ EngineOff
    /\ FrontOff
    /\ CtorOff
    /\ RenameOff
    /\ MainOff
    /\ ListOff
    /\ d_type \in DestTypes
    /\ d_pc = "ready"
    /\ d_store \in {0, 1}
    /\ d_probe = NoRequest
    /\ d_post = NoRequest
    /\ d_exists = "none"
    /\ d_create = [ret |-> "none", posted |-> FALSE]

\* provider.repository_exists(name)
ProbeRepository ==
    /\ d_pc = "ready"
    /\ \E probe \in ProbeOutcomes :
         /\ ServerProbe(DestStore, "foo", probe)
         /\ d_probe' = probe
         /\ d_exists' = RepositoryExists(d_type, probe)
    /\ d_pc' = "probed"
    /\ UNCHANGED << engineVars, renameVars, mainVars, listVars, ctorVars, frontVars, d_type, d_store, d_post, d_create >>

\* provider.create_repository(repository, target_name), which probes first
CreateOnDestination ==
    /\ d_pc = "ready"
    /\ \E probe \in ProbeOutcomes, post \in PostOutcomes \cup {NoRequest},
          probe2 \in ProbeOutcomes :
         LET r == CreateRepository(d_type, probe, post, probe2)
             creates == r.posted /\ post.kind = "response" /\ post.status = 201
         IN  /\ ServerProbe(DestStore, "foo", probe)
             /\ r.posted <=> (post # NoRequest)
             /\ r.posted => ServerPost(DestStore, "foo", post)
             /\ d_probe' = probe
             /\ d_post' = post
             /\ d_exists' = RepositoryExists(d_type, probe)
             /\ d_create' = r
             /\ d_store' = IF creates THEN d_store + 1 ELSE d_store
    /\ d_pc' = "created"
    /\ UNCHANGED << engineVars, renameVars, mainVars, listVars, ctorVars, frontVars, d_type >>

NextDest ==
    \/ ProbeRepository
    \/ CreateOnDestination

SpecDest == InitDest /\ [][NextDest]_vars

(* ------------------------------- C15 ---------------------------------- *)

\* the probe did not end in a successful lookup: a transport error, or a
\* response of another status
C15_TransportOrBadStatus(dest, probe) ==
    \/ probe.kind = "RequestException"
    \/ probe.kind = "response" /\ (IF dest = "github" THEN probe.status >= 400
                                    ELSE probe.status # 200)

\* C15 as stated: repository_exists never raises; whenever the probe is not
\* a successful lookup it answers false and create_repository attempts the
\* creation.
C15_ProbeNeverRaises ==
    d_pc \in {"probed", "created"} =>
        /\ d_exists \in {"True", "False"}
        /\ ~(d_probe.kind = "response" /\ d_probe.status < 400) => d_exists = "False"
        /\ (d_pc = "created" /\ d_exists = "False") => d_create.posted

\* C15: a transport error during the probe and a response that is no
\* successful lookup make repository_exists answer false, and
\* create_repository then sends the creation request. The GitHub probe
\* never raises; the Gitea and GitLab probes let an exception that is no
\* requests.RequestException out, and create_repository then returns false
\* without sending a creation request.
C15_ProbeFailureIsFalse ==
    d_pc \in {"probed", "created"} =>
        /\ C15_TransportOrBadStatus(d_type, d_probe) => d_exists = "False"
        /\ (d_pc = "created" /\ d_exists = "False") => d_create.posted
        /\ d_type = "github" => d_exists \in {"True", "False"}
        /\ (d_type # "github" /\ d_probe.kind = "Exception") =>
              /\ d_exists = "raise"
              /\ d_pc = "created" => d_create = [ret |-> "False", posted |-> FALSE]

\* a transport error in the probe of a create_repository on GitLab: the
\* probe answered false and the creation request was sent
C15_Witness ==
    /\ d_type = "gitlab"
    /\ d_pc = "created"
    /\ d_probe = RequestException
    /\ d_exists = "False"
    /\ d_create.posted

(* ====================== the rename interface =========================== *)
(* InteractiveSelector._rename_repositories_interface and _is_valid_repo_name
   of src/interactive_selector.py. A name is the sequence of its characters.
   "a" stands for every character of [a-zA-Z0-9_], "!" for every character
   outside [a-zA-Z0-9._-] that is not white space.                          *)

\* the longest name the user types character by character
MaxNameLen == 3

\* len(name) > 100
RepoNameLimit == 100

Chars == {"a", ".", "-", "!", " "}

\* the character class [a-zA-Z0-9._-]
NameChars == {"a", ".", "-"}

Fill(n) == [k \in 1..n |-> "a"]

\* the lines the user may type: every short line, and lines of 100 and of
\* 101 characters
TypedInputs ==
    SeqsUpTo(Chars, MaxNameLen)
        \cup { Fill(RepoNameLimit - 1) \o << c >> : c \in {"a", "-"} }
        \cup { Fill(RepoNameLimit) \o << "a" >> }

FooName == << "f", "o", "o" >>
BarName == << "b", "a", "r" >>

\* the lists handed to the interface (owner and name of each repository)
SelectedLists ==
    { << [owner |-> Owner, name |-> FooName] >>,
      << [owner |-> Owner, name |-> FooName], [owner |-> "org", name |-> BarName] >> }

RECURSIVE LStrip(_)
LStrip(s) == IF s # << >> /\ Head(s) = " " THEN LStrip(Tail(s)) ELSE s

RECURSIVE RStrip(_)
RStrip(s) == IF s # << >> /\ s[Len(s)] = " " THEN RStrip(SubSeq(s, 1, Len(s) - 1)) ELSE s

\* str.strip()
Strip(s) == RStrip(LStrip(s))

StartsWith(s, c) == s # << >> /\ s[1] = c

EndsWith(s, c) == s # << >> /\ s[Len(s)] = c

\* re.match(r'^[a-zA-Z0-9._-]+$', name) on a line without a line break
FullMatch(s) == s # << >> /\ \A k \in DOMAIN s : s[k] \in NameChars

\* _is_valid_repo_name, lines 244-259
IsValidRepoName(name) ==
    IF name = << >> THEN FALSE
    ELSE IF Len(name) > RepoNameLimit THEN FALSE
    ELSE IF StartsWith(name, ".") \/ StartsWith(name, "-") \/ EndsWith(name, ".") THEN FALSE
    ELSE FullMatch(name)

\* lines 193-204: the stripped line when it is a valid name, else the
\* original name
NewName(line, original_name) ==
    LET new_name == Strip(line)
    IN  IF new_name # << >>
        THEN (IF ~IsValidRepoName(new_name) THEN original_name ELSE new_name)
        ELSE original_name

InitRename ==
    /\ EngineOff
    /\ FrontOff
    /\ CtorOff
    /\ DestOff
    /\ MainOff
    /\ ListOff
    /\ selected_repos \in SelectedLists
    /\ rename_pc = "ask"
    /\ typed = << >>
    /\ renamed_repos = << >>

\* one iteration of the for loop, lines 184-211
RenameRepository ==
    /\ rename_pc = "ask"
    /\ Len(renamed_repos) < Len(selected_repos)
    /\ \E line \in TypedInputs :
         LET repo == selected_repos[Len(renamed_repos) + 1]
         IN  /\ typed' = line
             /\ renamed_repos' = Append(renamed_repos,
                    [owner |-> repo.owner, name |-> repo.name,
                     github_name |-> NewName(line, repo.name)])
    /\ UNCHANGED << engineVars, destVars, mainVars, listVars, ctorVars, frontVars, selected_repos, rename_pc >>

\* lines 213-229: the summary, then return renamed_repos
ReturnRenamed ==
    /\ rename_pc = "ask"
    /\ Len(renamed_repos) = Len(selected_repos)
    /\ rename_pc' = "returned"
    /\ UNCHANGED << engineVars, destVars, mainVars, listVars, ctorVars, frontVars, selected_repos, typed, renamed_repos >>

NextRename ==
    \/ RenameRepository
    \/ ReturnRenamed

SpecRename == InitRename /\ [][NextRename]_vars

(* ------------------------------- C13 ---------------------------------- *)

\* the naming rule of the specification
C13_NamingRule(name) ==
    /\ name # << >>
    /\ \A k \in DOMAIN name : name[k] \in NameChars
    /\ name[1] \notin {".", "-"}
    /\ name[Len(name)] \notin {".", "-"}
    /\ Len(name) <= RepoNameLimit

\* C13: a name the user typed becomes a repository's rename target only if
\* it passes the naming rule (characters of [a-zA-Z0-9._-] only, no leading
\* or trailing "." or "-", at most 100 characters); a repository whose typed
\* name fails the rule keeps its original name.
C13_OnlyRuleNamesAreTargets ==
    \A k \in DOMAIN renamed_repos :
        /\ renamed_repos[k].github_name # renamed_repos[k].name
              => C13_NamingRule(renamed_repos[k].github_name)
        /\ (k = Len(renamed_repos) /\ ~C13_NamingRule(Strip(typed)))
              => renamed_repos[k].github_name = renamed_repos[k].name

(* ================= main: which repositories are migrated =============== *)
(* main() of src/main.py from line 210 on, with the source providers'
   get_repository_info and get_user_repositories.                           *)

\* the longest --repos list, and the longest listing of a source
MaxSpecs == 2
MaxListed == 3

SourceTypes == {"gitea", "gitlab", "github"}

\* the configured username of the source
SourceUsername == Owner

\* a specification "name" (owner "") or "owner/name"
RepoSpecs ==
    { [owner |-> "", name |-> "foo"], [owner |-> "", name |-> "bar"],
      [owner |-> "org", name |-> "foo"] }

\* the repositories a listing can hold
SourceRepos ==
    { [owner |-> Owner, name |-> "foo"], [owner |-> Owner, name |-> "bar"],
      [owner |-> "org", name |-> "foo"], [owner |-> "org", name |-> "baz"] }

\* lines 215-219: owner and name of a specification
SpecOwner(repo_spec) == IF repo_spec.owner # "" THEN repo_spec.owner ELSE SourceUsername

\* get_repository_info of the Gitea and GitLab sources: the request, then
\* raise_for_status, then _parse_repository; a requests.RequestException
\* gives None, any other exception leaves the method
GiteaGetRepositoryInfo(answer) ==
    IF answer.kind = "RequestException" THEN "None"
    ELSE IF answer.kind = "Exception" THEN "raise"
    ELSE IF RaisesForStatus(answer) THEN "None" ELSE "Repository"

GitLabGetRepositoryInfo(answer) ==
    IF answer.kind = "RequestException" THEN "None"
    ELSE IF answer.kind = "Exception" THEN "raise"
    ELSE IF RaisesForStatus(answer) THEN "None" ELSE "Repository"

\* get_repository_info of the GitHub source: github.get_repo raises
\* GithubException for a response of 400 and up, which gives None; an
\* exception that is no GithubException (a transport error of the underlying
\* requests session among them) leaves the method
GitHubGetRepositoryInfo(answer) ==
    IF answer.kind = "response" /\ answer.status < 400 THEN "Repository"
    ELSE IF answer.kind = "response" THEN "None"
    ELSE "raise"

GetRepositoryInfo(src, answer) ==
    IF src = "gitea" THEN GiteaGetRepositoryInfo(answer)
    ELSE IF src = "gitlab" THEN GitLabGetRepositoryInfo(answer)
    ELSE GitHubGetRepositoryInfo(answer)

\* mutant of UserRepositories: the listing is returned unfiltered
UserRepositoriesUnfiltered(listing, username) == listing

\* get_user_repositories: [repo for repo in ... if repo.owner == self.username]
UserRepositories(listing, username) ==
    SelectSeq(listing, LAMBDA repo : repo.owner = username)

\* what get_accessible_repositories gives main: a listing, or ProviderError
ListingResults ==
    { [raised |-> FALSE, repos |-> l] : l \in SeqsUpTo(SourceRepos, MaxListed) }
        \cup { [raised |-> TRUE, repos |-> << >>] }

InitMain ==
    /\ EngineOff
    /\ FrontOff
    /\ CtorOff
    /\ RenameOff
    /\ DestOff
    /\ ListOff
    /\ src_type \in SourceTypes
    /\ m_mode \in {"repos", "no_interactive"}
    /\ repo_specs \in (IF m_mode = "repos"
                        THEN SeqsUpTo(RepoSpecs, MaxSpecs) \ { << >> }
                        ELSE { << >> })
    /\ m_pc = (IF m_mode = "repos" THEN "lookup" ELSE "list")
    /\ looked_up = << >>
    /\ main_repositories = << >>
    /\ all_repos = << >>
    /\ relisted = << >>
    /\ user_repos = << >>
    /\ handed = << >>

\* lines 214-225: one iteration of `for repo_spec in args.repos`; an
\* exception of get_repository_info reaches line 258 and sys.exit(1)
LookupRepository ==
    /\ m_pc = "lookup"
    /\ Len(looked_up) < Len(repo_specs)
    /\ \E answer \in ProbeOutcomes :
         LET repo_spec == repo_specs[Len(looked_up) + 1]
             owner == SpecOwner(repo_spec)
             repo == GetRepositoryInfo(src_type, answer)
         IN  /\ looked_up' = Append(looked_up,
                    [owner |-> owner, name |-> repo_spec.name, answer |-> answer])
             /\ main_repositories' =
                    IF repo = "Repository"
                    THEN Append(main_repositories, [owner |-> owner, name |-> repo_spec.name])
                    ELSE main_repositories
             /\ m_pc' = IF repo = "raise" THEN "exit1" ELSE "lookup"
    /\ UNCHANGED << engineVars, renameVars, destVars, listVars, ctorVars, frontVars, src_type, m_mode, repo_specs,
                    all_repos, relisted, user_repos, handed >>

\* line 227: migration_engine.migrate_repositories(repositories)
MigrateSpecified ==
    /\ m_pc = "lookup"
    /\ Len(looked_up) = Len(repo_specs)
    /\ handed' = main_repositories
    /\ m_pc' = "migrate"
    /\ UNCHANGED << engineVars, renameVars, destVars, listVars, ctorVars, frontVars, src_type, m_mode, repo_specs,
                    looked_up, main_repositories, all_repos, relisted, user_repos >>

\* line 230: all_repos = source_provider.get_accessible_repositories(); a
\* ProviderError reaches line 254 and sys.exit(1)
ListAccessible ==
    /\ m_pc = "list"
    /\ \E listing \in ListingResults :
         IF listing.raised
         THEN m_pc' = "exit1" /\ UNCHANGED all_repos
         ELSE m_pc' = "user" /\ all_repos' = listing.repos
    /\ UNCHANGED << engineVars, renameVars, destVars, listVars, ctorVars, frontVars, src_type, m_mode, repo_specs,
                    looked_up, main_repositories, relisted, user_repos, handed >>

\* lines 232-236 (--no-interactive): user_repos = get_user_repositories(),
\* which lists again, then migrate_repositories(user_repos)
MigrateUserRepositories ==
    /\ m_pc = "user"
    /\ \E listing \in ListingResults :
         IF listing.raised
         THEN m_pc' = "exit1" /\ UNCHANGED << relisted, user_repos, handed >>
         ELSE /\ relisted' = listing.repos
              /\ user_repos' = UserRepositories(listing.repos, SourceUsername)
              /\ handed' = user_repos'
              /\ m_pc' = "migrate"
    /\ UNCHANGED << engineVars, renameVars, destVars, listVars, ctorVars, frontVars, src_type, m_mode, repo_specs,
                    looked_up, main_repositories, all_repos >>

NextMain ==
    \/ LookupRepository
    \/ MigrateSpecified
    \/ ListAccessible
    \/ MigrateUserRepositories

SpecMain == InitMain /\ [][NextMain]_vars

(* ------------------------------- C16 ---------------------------------- *)

\* the lookup failed in transport or with an HTTP error status
C16_TransportOrHttpFailure(answer) ==
    answer.kind = "RequestException" \/ RaisesForStatus(answer)

\* the specifications looked up so far whose repository was found, in order
C16_Found ==
    LET hit(l) == l.answer.kind = "response" /\ l.answer.status < 400
        hits == SelectSeq(looked_up, hit)
    IN  [ k \in DOMAIN hits |-> [owner |-> hits[k].owner, name |-> hits[k].name] ]

\* C16 as stated: get_repository_info never raises on a transport or HTTP
\* failure, so in --repos mode such a failure never ends the run: the
\* specification is skipped, every specification is looked up, and exactly
\* the repositories found are handed to the engine, in order.
C16_LookupFailureIsSkipped ==
    m_mode = "repos" =>
        /\ \A k \in DOMAIN looked_up :
              C16_TransportOrHttpFailure(looked_up[k].answer) =>
                  ~(m_pc = "exit1" /\ k = Len(looked_up))
        /\ main_repositories = C16_Found
        /\ m_pc = "migrate" => (Len(looked_up) = Len(repo_specs) /\ handed = C16_Found)

(* ------------------------------- C19 ---------------------------------- *)

\* the position in the listing of the j-th repository owned by the user
C19_Nth(j) ==
    CHOOSE k \in DOMAIN relisted :
        /\ relisted[k].owner = SourceUsername
        /\ Cardinality({ q \in 1..k : relisted[q].owner = SourceUsername }) = j

\* C19: get_user_repositories returns exactly the repositories of the
\* listing whose owner equals the configured username, in listing order, and
\* in --no-interactive mode that list is what the engine is handed: every
\* repository handed over is owned by the configured source username.
C19_OnlyOwnRepositories ==
    (m_mode = "no_interactive" /\ m_pc = "migrate") =>
        /\ handed = user_repos
        /\ \A j \in DOMAIN handed : handed[j].owner = SourceUsername
        /\ Len(handed) =
              Cardinality({ k \in DOMAIN relisted : relisted[k].owner = SourceUsername })
        /\ \A j \in DOMAIN handed : handed[j] = relisted[C19_Nth(j)]

\* a listing with a repository of an organization between two of the user's:
\* the two are handed over, in their order
C19_Witness ==
    /\ m_mode = "no_interactive"
    /\ m_pc = "migrate"
    /\ relisted = << [owner |-> Owner, name |-> "bar"], [owner |-> "org", name |-> "foo"],
                     [owner |-> Owner, name |-> "foo"] >>
    /\ handed = << [owner |-> Owner, name |-> "bar"], [owner |-> Owner, name |-> "foo"] >>

(* ============== listing the accessible repositories ==================== *)
(* get_accessible_repositories of the three source providers, and
   GiteaClient.list_accessible_repos, which pages like the Gitea source.
   The vendor holds the user's repositories 1..l_total and serves them in
   pages; a repository is the number it has at the vendor.                  *)

\* the most full pages the vendor holds, and the most organizations
MaxFullPages == 2
MaxOrgs == 2

\* 'limit': 100 and 'per_page': 100
PageSize == 100

PagedSources == {"gitea", "gitlab", "gitea_client"}

Totals == { f * PageSize + r : f \in 0..MaxFullPages, r \in {0, 1, PageSize - 1} }

\* the vendor's page p for a user with `total` repositories
PageOf(total, p) ==
    LET first == (p - 1) * PageSize + 1
        last  == IF p * PageSize < total THEN p * PageSize ELSE total
        count == IF last >= first THEN last - first + 1 ELSE 0
    IN  [ k \in 1..count |-> first + k - 1 ]

\* how a request ends: answered, a network error, an HTTP error status, or
\* an exception of another kind
ListAnswers == {"ok", "network", "http", "other"}

Request(what, n, answer, len, next_header) ==
    [what |-> what, n |-> n, answer |-> answer, len |-> len, next_header |-> next_header]

\* mutant of GiteaAfterPage: only an empty page ends the loop
GiteaAfterPageUntilEmpty(repos_data) == IF repos_data = << >> THEN "stop" ELSE "more"

\* Gitea source lines 49-58 (GiteaClient lines 78-85): an empty page and a
\* page shorter than the limit end the loop
GiteaAfterPage(repos_data) ==
    IF repos_data = << >> THEN "stop"
    ELSE IF Len(repos_data) < PageSize THEN "stop" ELSE "more"

\* GitLab source lines 62-72: an empty page and a response without the
\* X-Next-Page header end the loop
GitLabAfterPage(repos_data, next_header) ==
    IF repos_data = << >> THEN "stop"
    ELSE IF ~next_header THEN "stop" ELSE "more"

AfterPage(src, repos_data, next_header) ==
    IF src = "gitlab" THEN GitLabAfterPage(repos_data, next_header)
    ELSE GiteaAfterPage(repos_data)

\* params['page'] after a page that was answered: Gitea adds one after every
\* page that is not empty, GitLab only when it goes on
PageAfter(src, p, repos_data, next_header) ==
    IF repos_data = << >> THEN p
    ELSE IF src = "gitlab" /\ ~next_header THEN p
    ELSE p + 1

\* a failed page request: the sources turn a requests.RequestException
\* (network error, raise_for_status) into ProviderError, GiteaClient has no
\* try and lets every exception out
PageFailure(src, answer) ==
    IF src = "gitea_client" THEN "raised"
    ELSE IF answer \in {"network", "http"} THEN "ProviderError"
    ELSE "raised"

\* GitHub source line 56: a GithubException (an HTTP error status) of
\* get_repos or get_orgs becomes ProviderError, another exception gets out
GitHubFailure(answer) == IF answer = "http" THEN "ProviderError" ELSE "raised"

\* mutant of GitHubOrgFailure: a GithubException of an organization ends the listing
GitHubOrgFailureFatal(answer) == IF answer = "http" THEN "ProviderError" ELSE "raised"

\* GitHub source lines 52-54: a GithubException of org.get_repos is logged
\* and the loop continues; another exception gets out
GitHubOrgFailure(answer) == IF answer = "http" THEN "continue" ELSE "raised"

\* the repositories of the k-th organization
OrgRepos(k) == << 1000 * k + 1 >>

InitList ==
    /\ EngineOff
    /\ FrontOff
    /\ CtorOff
    /\ RenameOff
    /\ DestOff
    /\ MainOff
    /\ l_src \in PagedSources \cup {"github"}
    /\ l_pc = "listing"
    /\ l_total \in Totals
    /\ l_orgs \in (IF l_src = "github" THEN 0..MaxOrgs ELSE {0})
    /\ page = (IF l_src = "github" THEN 0 ELSE 1)
    /\ requested = << >>
    /\ l_all = << >>

\* one turn of `while True` of a paged source
FetchPage ==
    /\ l_pc = "listing"
    /\ l_src \in PagedSources
    /\ \E answer \in ListAnswers, next_header \in BOOLEAN :
         LET repos_data == PageOf(l_total, page) IN
         /\ (l_src # "gitlab" \/ answer # "ok") => ~next_header
         /\ IF answer = "ok"
            THEN /\ requested' = Append(requested,
                        Request("page", page, "ok", Len(repos_data), next_header))
                 /\ l_all' = l_all \o repos_data
                 /\ page' = PageAfter(l_src, page, repos_data, next_header)
                 /\ l_pc' = IF AfterPage(l_src, repos_data, next_header) = "stop"
                            THEN "returned" ELSE "listing"
            ELSE /\ requested' = Append(requested, Request("page", page, answer, 0, FALSE))
                 /\ l_pc' = PageFailure(l_src, answer)
                 /\ UNCHANGED << l_all, page >>
    /\ UNCHANGED << engineVars, renameVars, destVars, mainVars, ctorVars, frontVars, l_src, l_total, l_orgs >>

\* GitHub source lines 44-45: the user's own repositories
FetchUserRepos ==
    /\ l_pc = "listing"
    /\ l_src = "github"
    /\ \E answer \in ListAnswers :
         /\ requested' = Append(requested,
                Request("user_repos", 0, answer, IF answer = "ok" THEN l_total ELSE 0, FALSE))
         /\ IF answer = "ok"
            THEN l_all' = l_all \o [ k \in 1..l_total |-> k ] /\ l_pc' = "orgs"
            ELSE l_pc' = GitHubFailure(answer) /\ UNCHANGED l_all
    /\ UNCHANGED << engineVars, renameVars, destVars, mainVars, ctorVars, frontVars, l_src, l_total, l_orgs, page >>

\* line 48: self.user.get_orgs()
FetchOrgs ==
    /\ l_pc = "orgs"
    /\ \E answer \in ListAnswers :
         /\ requested' = Append(requested,
                Request("orgs", 0, answer, IF answer = "ok" THEN l_orgs ELSE 0, FALSE))
         /\ IF answer = "ok"
            THEN IF l_orgs = 0
                 THEN l_pc' = "returned" /\ UNCHANGED page
                 ELSE l_pc' = "org_repos" /\ page' = 1
            ELSE l_pc' = GitHubFailure(answer) /\ UNCHANGED page
    /\ UNCHANGED << engineVars, renameVars, destVars, mainVars, ctorVars, frontVars, l_src, l_total, l_orgs, l_all >>

\* lines 49-54: the repositories of one organization
FetchOrgRepos ==
    /\ l_pc = "org_repos"
    /\ \E answer \in ListAnswers :
         LET goes_on == answer = "ok" \/ GitHubOrgFailure(answer) = "continue" IN
         /\ requested' = Append(requested,
                Request("org_repos", page, answer, IF answer = "ok" THEN 1 ELSE 0, FALSE))
         /\ l_all' = IF answer = "ok" THEN l_all \o OrgRepos(page) ELSE l_all
         /\ l_pc' = IF ~goes_on THEN GitHubOrgFailure(answer)
                    ELSE IF page = l_orgs THEN "returned" ELSE "org_repos"
         /\ page' = IF goes_on THEN page + 1 ELSE page
    /\ UNCHANGED << engineVars, renameVars, destVars, mainVars, ctorVars, frontVars, l_src, l_total, l_orgs >>

NextList ==
    \/ FetchPage
    \/ FetchUserRepos
    \/ FetchOrgs
    \/ FetchOrgRepos

SpecList == InitList /\ [][NextList]_vars

(* ------------------------------- C17 ---------------------------------- *)

\* the number of repositories on the first k pages fetched
RECURSIVE C17_Fetched(_)
C17_Fetched(k) == IF k = 0 THEN 0 ELSE C17_Fetched(k - 1) + requested[k].len

\* C17 as stated: a page-number based source requests the pages 1, 2, 3, ...
\* in order, sends no request after a page shorter than the page size, stops
\* exactly at such a page, and returns the repositories of the pages fetched,
\* in order, none left out and none twice.
C17_StopsAtShortPage ==
    l_src \in PagedSources =>
        /\ \A k \in DOMAIN requested : requested[k].n = k
        /\ \A k \in 1..(Len(requested) - 1) :
              requested[k].answer = "ok" /\ requested[k].len = PageSize
        /\ l_pc = "listing" => \A k \in DOMAIN requested : requested[k].len = PageSize
        /\ l_pc = "returned" =>
              /\ requested[Len(requested)].len < PageSize
              /\ l_all = [ k \in 1..C17_Fetched(Len(requested)) |-> k ]

\* the page at which the source stops
C17_Stopping(src, r) ==
    /\ r.answer = "ok"
    /\ IF src = "gitlab" THEN (r.len = 0 \/ ~r.next_header) ELSE r.len < PageSize

\* C17: a page-number based source requests the pages 1, 2, 3, ... in
\* order and returns the repositories of the pages fetched, in order, none
\* left out and none twice. Gitea stops exactly at the first page shorter than
\* the page size of 100 (an empty one included); GitLab stops exactly at the
\* first page that is empty or whose response has no X-Next-Page header,
\* whatever its length. No request follows the page a source stops at.
C17_PagesInOrder ==
    l_src \in PagedSources =>
        /\ \A k \in DOMAIN requested : requested[k].n = k
        /\ \A k \in 1..(Len(requested) - 1) :
              requested[k].answer = "ok" /\ ~C17_Stopping(l_src, requested[k])
        /\ l_pc = "listing" => \A k \in DOMAIN requested : ~C17_Stopping(l_src, requested[k])
        /\ l_pc = "returned" => C17_Stopping(l_src, requested[Len(requested)])
        /\ l_all = [ k \in 1..C17_Fetched(Len(requested)) |-> k ]

\* GitLab holds 101 repositories: after the full first page and the second
\* page of one repository, which came with the X-Next-Page header, a third
\* page was requested, and the listing returned at that empty page
C17_Witness ==
    /\ l_src = "gitlab"
    /\ l_pc = "returned"
    /\ Len(requested) = 3
    /\ requested[1].len = PageSize
    /\ requested[2].len = 1
    /\ requested[3].len = 0
    /\ Len(l_all) = PageSize + 1

(* ------------------------------- C18 ---------------------------------- *)

\* a request that failed with a network error or an HTTP error status
C18_Failed(r) == r.answer \in {"network", "http"}

ConfigKeys == {"url", "token", "username"}

\* a key that is absent (or None), the empty string, or a value
ConfigValues == {"missing", "empty", "set"}

\* required_keys
RequiredKeys(type) ==
    IF type = "github" THEN {"token", "username"} ELSE {"url", "token", "username"}

\* mutant of MissingKeys: only an absent key counts, an empty string passes
MissingKeysAbsentOnly(type, config) ==
    { key \in RequiredKeys(type) : config[key] = "missing" }

\* missing = [key for key in required_keys if not self.config.get(key)]
MissingKeys(type, config) ==
    { key \in RequiredKeys(type) : config[key] \in {"missing", "empty"} }

\* whether _validate_config goes on to an authenticating call: the Gitea
\* and GitLab destinations GET the user, both GitHub providers call
\* Github(token).get_user(), the Gitea and GitLab sources only set up the
\* session
Authenticates(role, type) == type = "github" \/ role = "destination"

\* the authenticating call: a requests.RequestException (GithubException for
\* GitHub) becomes ConfigurationError, another exception gets out
AfterAuthentication(type, answer) ==
    IF answer = "ok" THEN "constructed"
    ELSE IF answer = "http" THEN "ConfigurationError"
    ELSE IF answer = "network" /\ type # "github" THEN "ConfigurationError"
    ELSE "raised"

InitCtor ==
    /\ EngineOff
    /\ FrontOff
    /\ RenameOff
    /\ DestOff
    /\ MainOff
    /\ ListOff
    /\ c_role \in {"source", "destination"}
    /\ c_type \in (IF c_role = "source" THEN SourceTypes ELSE DestTypes)
    /\ c_config \in [ConfigKeys -> ConfigValues]
    /\ c_pc = "new"
    /\ c_requests = 0

\* __init__, then the required_keys check at the head of _validate_config
ValidateKeys ==
    /\ c_pc = "new"
    /\ c_pc' = IF MissingKeys(c_type, c_config) # {} THEN "ConfigurationError" ELSE "keys_ok"
    /\ UNCHANGED << engineVars, renameVars, destVars, mainVars, listVars, frontVars,
                    c_role, c_type, c_config, c_requests >>

\* the rest of _validate_config: the session, and the authenticating call
\* of the providers that make one
Authenticate ==
    /\ c_pc = "keys_ok"
    /\ IF Authenticates(c_role, c_type)
       THEN \E answer \in ListAnswers :
                /\ c_requests' = c_requests + 1
                /\ c_pc' = AfterAuthentication(c_type, answer)
       ELSE c_pc' = "constructed" /\ UNCHANGED c_requests
    /\ UNCHANGED << engineVars, renameVars, destVars, mainVars, listVars, frontVars,
                    c_role, c_type, c_config >>

NextCtor ==
    \/ ValidateKeys
    \/ Authenticate

SpecCtor == InitCtor /\ [][NextCtor]_vars

(* ------------------------------- C20 ---------------------------------- *)

\* C20: for every provider variant and role, when a required configuration
\* key (url where the variant has one, token, username) is missing or empty,
\* construction fails with ConfigurationError, and the provider has issued no
\* network request at any point before failing.
C20_MissingKeyFailsBeforeAnyRequest ==
    (\E key \in RequiredKeys(c_type) : c_config[key] \in {"missing", "empty"}) =>
        /\ c_requests = 0
        /\ c_pc \in {"off", "new", "ConfigurationError"}

\* a GitLab destination whose token is the empty string failed with
\* ConfigurationError without a request
C20_Witness ==
    /\ c_role = "destination"
    /\ c_type = "gitlab"
    /\ c_config = [url |-> "set", token |-> "empty", username |-> "set"]
    /\ c_pc = "ConfigurationError"
    /\ c_requests = 0

(* ------------------------------- C21 ---------------------------------- *)

\* C21 as stated: with every required key present, the validation of every
\* provider, source or destination, sends one authenticating request, and a
\* failed one ends construction with ConfigurationError; a provider is
\* constructed only after an authenticating request that succeeded.
C21_ValidationAuthenticates ==
    (MissingKeys(c_type, c_config) = {} /\ c_pc \notin {"off", "new", "keys_ok"}) =>
        /\ c_requests = 1
        /\ c_pc \in {"constructed", "ConfigurationError"}

(* ========================== ProviderFactory ============================ *)
(* src/providers/factory.py: the two class-level registries, the register_*  *)
(* and the create_* class methods.                                           *)

MaxRegistrations == 2

Roles == {"source", "destination"}

\* the names registered in the runs looked at, and the names asked for
RegisteredNames == {"gitea", "github", "bitbucket"}
RequestedNames == RegisteredNames \cup {"gitlab"}

\* the classes registered in the runs looked at
RegisteredClasses == {"GitHubSourceProvider", "GiteaDestinationProvider"}

\* factory.py lines 15-18
BuiltinSourceProviders ==
    << [key |-> "gitea", value |-> "GiteaSourceProvider"],
       [key |-> "gitlab", value |-> "GitLabSourceProvider"] >>

\* factory.py lines 20-23
BuiltinDestinationProviders ==
    << [key |-> "github", value |-> "GitHubDestinationProvider"],
       [key |-> "gitlab", value |-> "GitLabDestinationProvider"] >>

\* mutant of RegisterProvider: a name that is registered keeps its class
RegisterProviderKeepExisting(registry, name, provider_class) ==
    IF name \in Keys(registry) THEN registry
    ELSE Append(registry, [key |-> name, value |-> provider_class])

\* lines 48 and 53: cls._source_providers[name] = provider_class
RegisterProvider(registry, name, provider_class) == SetItem(registry, name, provider_class)

\* mutant of AvailableProviders: the message lists the first two names only
AvailableProvidersBuiltin(registry) == [j \in 1..2 |-> registry[j].key]

\* lines 29 and 38: ', '.join(registry.keys()), the names in insertion order
AvailableProviders(registry) == [j \in DOMAIN registry |-> registry[j].key]

\* create_source_provider / create_destination_provider, lines 25-43, called
\* for `name` after n registrations: an unknown name raises before any class
\* is looked up; a known one calls the class, which returns the provider
\* (built) or raises from its own validation
CreateProvider(registry, role, name, built, n) ==
    IF name \notin Keys(registry)
    THEN [role |-> role, name |-> name, outcome |-> "ConfigurationError",
          available |-> AvailableProviders(registry), constructed |-> "none", after |-> n]
    ELSE [role |-> role, name |-> name,
          outcome |-> IF built THEN "provider" ELSE "constructor raised",
          available |-> << >>,
          constructed |-> registry[GetItem(registry, name)].value, after |-> n]

InitFactory ==
    /\ BackOff
    /\ SelectorOff
    /\ ProviderOff
    /\ AppOff
    /\ f_source = BuiltinSourceProviders
    /\ f_dest = BuiltinDestinationProviders
    /\ f_calls = << >>
    /\ f_last = NoCreate

\* register_source_provider, lines 45-48
RegisterSourceProvider ==
    /\ f_source # << >>
    /\ Len(f_calls) < MaxRegistrations
    /\ \E name \in RegisteredNames, provider_class \in RegisteredClasses :
         /\ f_source' = RegisterProvider(f_source, name, provider_class)
         /\ f_calls' = Append(f_calls, [role |-> "source", name |-> name,
                                        provider_class |-> provider_class])
    /\ UNCHANGED << backVars, selectorVars, providerVars, appVars,
                    f_dest, f_last >>

\* register_destination_provider, lines 50-53
RegisterDestinationProvider ==
    /\ f_dest # << >>
    /\ Len(f_calls) < MaxRegistrations
    /\ \E name \in RegisteredNames, provider_class \in RegisteredClasses :
         /\ f_dest' = RegisterProvider(f_dest, name, provider_class)
         /\ f_calls' = Append(f_calls, [role |-> "destination", name |-> name,
                                        provider_class |-> provider_class])
    /\ UNCHANGED << backVars, selectorVars, providerVars, appVars,
                    f_source, f_last >>

\* create_source_provider, lines 25-33
CreateSourceProvider ==
    /\ f_source # << >>
    /\ \E name \in RequestedNames, built \in BOOLEAN :
         f_last' = CreateProvider(f_source, "source", name, built, Len(f_calls))
    /\ UNCHANGED << backVars, selectorVars, providerVars, appVars,
                    f_source, f_dest, f_calls >>

\* create_destination_provider, lines 35-43
CreateDestinationProvider ==
    /\ f_dest # << >>
    /\ \E name \in RequestedNames, built \in BOOLEAN :
         f_last' = CreateProvider(f_dest, "destination", name, built, Len(f_calls))
    /\ UNCHANGED << backVars, selectorVars, providerVars, appVars,
                    f_source, f_dest, f_calls >>

NextFactory ==
    \/ RegisterSourceProvider
    \/ RegisterDestinationProvider
    \/ CreateSourceProvider
    \/ CreateDestinationProvider

SpecFactory == InitFactory /\ [][NextFactory]_vars

(* ------------------------------- C22 ---------------------------------- *)

\* the names of a role's registry after the registrations `calls`: the names
\* the factory starts with and the names registered for that role
C22_NamesOf(role, calls) ==
    (IF role = "source" THEN {"gitea", "gitlab"} ELSE {"github", "gitlab"})
    \cup { calls[j].name : j \in { k \in DOMAIN calls : calls[k].role = role } }

\* C22: a create call with a name that is not registered for its role at the
\* time of the call ends in ConfigurationError, its message lists each name
\* registered for that role at that time exactly once, and no provider class
\* is called.
C22_UnknownNameListsRegistered ==
    f_last.role # "none" =>
        LET names == C22_NamesOf(f_last.role, SubSeq(f_calls, 1, f_last.after))
        IN  f_last.name \notin names =>
                /\ f_last.outcome = "ConfigurationError"
                /\ f_last.constructed = "none"
                /\ { f_last.available[j] : j \in DOMAIN f_last.available } = names
                /\ Len(f_last.available) = Cardinality(names)

\* an unknown name asked for after a name was added to that role's registry
C22_Witness ==
    /\ f_last.outcome = "ConfigurationError"
    /\ f_last.role = "destination"
    /\ f_last.name = "gitea"
    /\ f_last.available = << "github", "gitlab", "bitbucket" >>

(* ------------------------------- C23 ---------------------------------- *)

\* the class a role holds for a name after the registrations `calls`: the one
\* of the last registration of that name for that role, else the one the
\* factory starts with, else none
C23_Latest(role, name, calls) ==
    LET regs == { j \in DOMAIN calls : calls[j].role = role /\ calls[j].name = name }
    IN  IF regs # {}
        THEN calls[CHOOSE j \in regs : \A k \in regs : k <= j].provider_class
        ELSE IF role = "source" /\ name = "gitea" THEN "GiteaSourceProvider"
        ELSE IF role = "source" /\ name = "gitlab" THEN "GitLabSourceProvider"
        ELSE IF role = "destination" /\ name = "github" THEN "GitHubDestinationProvider"
        ELSE IF role = "destination" /\ name = "gitlab" THEN "GitLabDestinationProvider"
        ELSE "none"

C23_Held(registry, name) ==
    IF name \in Keys(registry) THEN registry[GetItem(registry, name)].value ELSE "none"

\* C23: after any sequence of registrations each registry holds, for every
\* name, the class most recently registered under it for that role and
\* nothing for a name never registered for that role (so a registration for
\* one role changes nothing for the other), and a create call constructs
\* exactly that class, or fails as unknown when there is none.
C23_LatestRegistrationWins ==
    /\ f_source # << >> =>
         \A name \in RequestedNames :
            /\ C23_Held(f_source, name) = C23_Latest("source", name, f_calls)
            /\ C23_Held(f_dest, name) = C23_Latest("destination", name, f_calls)
    /\ f_last.role # "none" =>
         LET latest == C23_Latest(f_last.role, f_last.name, SubSeq(f_calls, 1, f_last.after))
         IN  /\ f_last.constructed = latest
             /\ (f_last.outcome = "ConfigurationError") <=> (latest = "none")

\* a name registered twice for one role with two classes, then created
C23_Witness ==
    /\ Len(f_calls) = 2
    /\ f_calls[1].role = f_calls[2].role
    /\ f_calls[1].name = f_calls[2].name
    /\ f_calls[1].provider_class # f_calls[2].provider_class
    /\ f_last.after = 2
    /\ f_last.role = f_calls[2].role
    /\ f_last.name = f_calls[2].name
    /\ f_last.outcome = "provider"
    /\ f_last.constructed = f_calls[2].provider_class

(* =================== the engine, further properties ==================== *)

(* ------------------------------- C26 ---------------------------------- *)

C26_PushSteps == {"push_url", "remote_add", "push_all", "push_tags"}

\* C26: when git clone exited with status 0 but the repository directory is
\* not in the scratch directory, no remote-add and no push is run for the
\* repository and its result is False.
C26_MissingDirectoryFails ==
    (HasStep("clone", "zero") /\ HasStep("verify", "missing")) =>
        /\ \A op \in C26_PushSteps : ~RanStep(op)
        /\ pc \in {"finally", "record"} => ~success
        /\ pc = "loop" => (outcomes # << >> /\ ~outcomes[Len(outcomes)])

\* the result of such a repository has been recorded
C26_Witness ==
    /\ pc = "loop"
    /\ HasStep("clone", "zero")
    /\ HasStep("verify", "missing")
    /\ ~outcomes[Len(outcomes)]

(* ------------------------------- C27 ---------------------------------- *)

\* what the create, clone, remote and push steps of the current repository
\* determine: True exactly when the tag push was launched
C27_ResultOfSteps == HasStep("push_tags", "zero") \/ HasStep("push_tags", "nonzero")

\* C27: whatever the cleanup does, the result of the repository is the one
\* its create/clone/remote/push steps determined, the engine goes on to
\* record it, and it stops only when every repository has its result.
C27_CleanupNeverChangesResult ==
    /\ (pc = "record" /\ RanStep("cleanup")) => success = C27_ResultOfSteps
    /\ (pc = "loop" /\ RanStep("cleanup")) =>
            /\ Len(outcomes) = i - 1
            /\ outcomes[Len(outcomes)] = C27_ResultOfSteps
    /\ pc = "done" => Len(outcomes) = Len(repositories)
    /\ (steps # << >> /\ LastStep.op = "cleanup") => pc \in {"record", "loop"}

\* a repository whose scratch directory could not be removed is reported as
\* migrated, and the repository after it has been started
C27_Witness ==
    /\ i = 2
    /\ pc = "getcwd"
    /\ outcomes = << TRUE >>
    /\ 1 \in fsDirs

(* ------------------------------- C29 ---------------------------------- *)

\* the rename target if set and non-empty, otherwise the source name
C29_Target(r) == IF r.github_name # "" THEN r.github_name ELSE r.name

\* C29: for the repository being processed, create_repository was called
\* with the rename target (or the source name when there is none), the push
\* URL names that same repository of the destination user, and the clone URL
\* names the source owner and the source name.
C29_CreatedIsPushed ==
    (pc \notin {"off", "idle", "loop", "done"}) =>
        LET r == repositories[i]
        IN  /\ call.ret # "none" => call.name = C29_Target(r)
            /\ urls.dest_url # "" =>
                  /\ call.ret = "True"
                  /\ urls.dest_url =
                        "https://destination/" \o DestUsername \o "/" \o call.name \o ".git"
            /\ urls.source_url # "" =>
                  urls.source_url =
                        "https://source/" \o r.owner \o "/" \o r.name \o ".git"

\* a renamed repository cloned under its source name and pushed under its
\* rename target
C29_Witness ==
    /\ pc = "push_all"
    /\ repositories[i].name = "foo"
    /\ repositories[i].github_name = "baz"
    /\ call.name = "baz"
    /\ urls.source_url = "https://source/alice/foo.git"
    /\ urls.dest_url = "https://destination/bob/baz.git"

(* ======================== InteractiveSelector ========================== *)
(* src/interactive_selector.py: the cursor, the page and the selected set    *)
(* under the keys of the selection screen.                                   *)

MaxOverflow == 1
MaxToggles == 2

\* __init__, line 23: self.page_size = 15
page_size == 15

\* the lengths of the repository list looked at: one repository, a full
\* page, and a full page with some repositories on a second page
RepositoryCounts == {1, page_size} \cup ((page_size + 1)..(page_size + MaxOverflow))

\* how many of them the user owns; _sort_repositories (lines 231-242) puts
\* these first, so __init__ (line 21) selects the indices before that number
OwnCounts(n) == {0, 1, n}

\* lines 59, 138, 165: (len(self.repositories) + self.page_size - 1) // self.page_size
TotalPages(n) == (n + page_size - 1) \div page_size

Max2(a, b) == IF a >= b THEN a ELSE b
Min2(a, b) == IF a <= b THEN a ELSE b

Cursor(index, pg) == [index |-> index, page |-> pg]

\* move_up, lines 125-131
move_up(index, pg, n) ==
    IF index > 0
    THEN Cursor(index - 1,
                IF index - 1 < pg * page_size THEN Max2(0, pg - 1) ELSE pg)
    ELSE Cursor(index, pg)

\* mutant of move_down: the page does not follow the cursor
move_down_same_page(index, pg, n) ==
    IF index < n - 1 THEN Cursor(index + 1, pg) ELSE Cursor(index, pg)

\* move_down, lines 133-140
move_down(index, pg, n) ==
    IF index < n - 1
    THEN Cursor(index + 1,
                IF index + 1 >= (pg + 1) * page_size
                THEN Min2(TotalPages(n) - 1, pg + 1) ELSE pg)
    ELSE Cursor(index, pg)

\* prev_page, lines 157-161
prev_page(index, pg, n) ==
    IF pg > 0 THEN Cursor((pg - 1) * page_size, pg - 1) ELSE Cursor(index, pg)

\* next_page, lines 163-168
next_page(index, pg, n) ==
    IF pg < TotalPages(n) - 1 THEN Cursor((pg + 1) * page_size, pg + 1)
    ELSE Cursor(index, pg)

\* toggle_current, lines 142-147
toggle_current(sel, index) ==
    IF index \in sel THEN sel \ {index} ELSE sel \cup {index}

\* select_all, lines 149-151: set(range(len(self.repositories)))
select_all(n) == 0..(n - 1)

\* __init__, lines 15-24, with a non-empty list
InitSelector ==
    /\ BackOff
    /\ FactoryOff
    /\ ProviderOff
    /\ AppOff
    /\ sel_n \in RepositoryCounts
    /\ \E own \in OwnCounts(sel_n) : selected = 0..(own - 1)
    /\ current_index = 0
    /\ current_page = 0
    /\ toggles = 0

MoveUp ==
    /\ sel_n > 0
    /\ LET c == move_up(current_index, current_page, sel_n)
       IN  current_index' = c.index /\ current_page' = c.page
    /\ UNCHANGED << backVars, factoryVars, providerVars, appVars, sel_n, selected, toggles >>

MoveDown ==
    /\ sel_n > 0
    /\ LET c == move_down(current_index, current_page, sel_n)
       IN  current_index' = c.index /\ current_page' = c.page
    /\ UNCHANGED << backVars, factoryVars, providerVars, appVars, sel_n, selected, toggles >>

PrevPage ==
    /\ sel_n > 0
    /\ LET c == prev_page(current_index, current_page, sel_n)
       IN  current_index' = c.index /\ current_page' = c.page
    /\ UNCHANGED << backVars, factoryVars, providerVars, appVars, sel_n, selected, toggles >>

NextPage ==
    /\ sel_n > 0
    /\ LET c == next_page(current_index, current_page, sel_n)
       IN  current_index' = c.index /\ current_page' = c.page
    /\ UNCHANGED << backVars, factoryVars, providerVars, appVars, sel_n, selected, toggles >>

ToggleCurrent ==
    /\ sel_n > 0
    /\ toggles < MaxToggles
    /\ selected' = toggle_current(selected, current_index)
    /\ toggles' = toggles + 1
    /\ UNCHANGED << backVars, factoryVars, providerVars, appVars, sel_n, current_index,
                    current_page >>

SelectAll ==
    /\ sel_n > 0
    /\ selected' = select_all(sel_n)
    /\ UNCHANGED << backVars, factoryVars, providerVars, appVars, sel_n, current_index,
                    current_page, toggles >>

\* select_none, lines 153-155
SelectNone ==
    /\ sel_n > 0
    /\ selected' = {}
    /\ UNCHANGED << backVars, factoryVars, providerVars, appVars, sel_n, current_index,
                    current_page, toggles >>

NextSelector ==
    \/ MoveUp
    \/ MoveDown
    \/ PrevPage
    \/ NextPage
    \/ ToggleCurrent
    \/ SelectAll
    \/ SelectNone

SpecSelector == InitSelector /\ [][NextSelector]_vars

(* ------------------------------- C30 ---------------------------------- *)

\* C30: with a non-empty list, after any sequence of the seven operations the
\* cursor is an index of the list, it lies on the displayed page, and every
\* selected index is an index of the list.
C30_CursorOnPage ==
    sel_n > 0 =>
        /\ 0 <= current_index /\ current_index < sel_n
        /\ current_page * page_size <= current_index
        /\ current_index < (current_page + 1) * page_size
        /\ \A k \in selected : 0 <= k /\ k < sel_n

\* the cursor has moved down onto the second page, back to the last row of
\* the first one and down again, and that repository was selected
C30_Witness ==
    /\ sel_n = page_size + 1
    /\ current_index = page_size
    /\ current_page = 1
    /\ page_size \in selected
    /\ toggles = 2

(* ========================== select_providers =========================== *)
(* src/ui/provider_selector.py with MigrationConfig (src/core/config.py):    *)
(* which source and destination the user can end up with.                    *)

\* the providers MigrationConfig knows, in the order of the dicts of
\* get_available_source_providers / get_available_destination_providers
ConfigOrder == << "gitea", "gitlab", "github" >>

\* config.py lines 24-61: the keys of each loaded configuration
LoadedKeys(type) ==
    IF type = "github" THEN {"token", "username"} ELSE {"url", "token", "username"}

\* the configurations looked at for a provider: complete, token unset
\* (os.getenv gives None), username set to the empty string
LoadedConfigs(type) ==
    { [key \in LoadedKeys(type) |-> "set"],
      [key \in LoadedKeys(type) |-> IF key = "token" THEN "missing" ELSE "set"],
      [key \in LoadedKeys(type) |-> IF key = "username" THEN "empty" ELSE "set"] }

\* the names the factory may hold: the built-in ones, and after
\* register_source_provider / register_destination_provider calls
FactoryRegistries ==
    { [source |-> s, destination |-> d] :
        s \in { {"gitea", "gitlab"}, {"gitea", "gitlab", "github"},
                {"gitea", "gitlab", "github", "bitbucket"} },
        d \in { {"github", "gitlab"}, {"github", "gitlab", "gitea"} } }

\* get_source_provider_config / get_destination_provider_config, lines 63-83:
\* GitHub has one configuration for both roles
ProviderConfig(env, role, type) ==
    IF type = "github" THEN env.github
    ELSE IF role = "source" THEN (IF type = "gitea" THEN env.gitea_source ELSE env.gitlab_source)
    ELSE (IF type = "gitea" THEN env.gitea_dest ELSE env.gitlab_dest)

\* is_source_provider_configured / is_destination_provider_configured,
\* lines 85-99: all(value for value in config.values())
IsProviderConfigured(env, role, type) ==
    LET config == ProviderConfig(env, role, type)
    IN  \A key \in DOMAIN config : config[key] = "set"

RECURSIVE ConfiguredFrom(_, _, _, _)
\* provider_selector.py lines 30-45: of the providers of the configuration,
\* from position k on, those the factory holds for the role and that are
\* configured
ConfiguredFrom(k, available, env, role) ==
    IF k > Len(ConfigOrder) THEN << >>
    ELSE LET provider == ConfigOrder[k]
             rest == ConfiguredFrom(k + 1, available, env, role)
         IN  IF provider \in available /\ IsProviderConfigured(env, role, provider)
             THEN << provider >> \o rest
             ELSE rest

ConfiguredProviders(available, env, role) == ConfiguredFrom(1, available, env, role)

\* list.remove(x): the list without its first x
Remove(list, x) ==
    LET k == CHOOSE j \in DOMAIN list : list[j] = x /\ \A q \in 1..(j - 1) : list[q] # x
    IN  SubSeq(list, 1, k - 1) \o SubSeq(list, k + 1, Len(list))

\* mutant of AvailableDestinations: GitHub stays a destination of GitHub
AvailableDestinationsAll(source, configured) == configured

\* lines 77-79: GitHub is not offered as the destination of GitHub
AvailableDestinations(source, configured) ==
    IF source = "github" /\ \E j \in DOMAIN configured : configured[j] = "github"
    THEN Remove(configured, "github")
    ELSE configured

\* _select_provider, lines 97-127: the only provider of the list without a
\* question; otherwise the one whose number the user enters, or "cancel"
\* when the user interrupts or closes the input (an invalid entry asks again)
Selections(providers) ==
    IF Len(providers) = 1 THEN { providers[1] }
    ELSE { providers[j] : j \in DOMAIN providers } \cup {"cancel"}

InitProviders ==
    /\ BackOff
    /\ FactoryOff
    /\ SelectorOff
    /\ AppOff
    /\ p_pc = "start"
    /\ p_registry \in FactoryRegistries
    /\ \E gs \in LoadedConfigs("gitea"), gd \in LoadedConfigs("gitea"),
          ls \in LoadedConfigs("gitlab"), ld \in LoadedConfigs("gitlab"),
          gh \in LoadedConfigs("github") :
         p_env = [gitea_source |-> gs, gitea_dest |-> gd, gitlab_source |-> ls,
                  gitlab_dest |-> ld, github |-> gh]
    /\ configured_source_providers = << >>
    /\ configured_destination_providers = << >>
    /\ available_destinations = << >>
    /\ source_provider = ""
    /\ destination_provider = ""

\* select_providers, lines 14-70: the configured providers of each role, and
\* exit(1) when a role has none
CheckConfigured ==
    /\ p_pc = "start"
    /\ LET sources == ConfiguredProviders(p_registry.source, p_env, "source")
           destinations == ConfiguredProviders(p_registry.destination, p_env, "destination")
       IN  /\ configured_source_providers' = sources
           /\ configured_destination_providers' = destinations
           /\ p_pc' = IF sources = << >> \/ destinations = << >> THEN "exit1" ELSE "source"
    /\ UNCHANGED << backVars, factoryVars, selectorVars, appVars, p_registry, p_env,
                    available_destinations, source_provider, destination_provider >>

\* lines 72-86: the source is chosen, then the destinations it can have
SelectSource ==
    /\ p_pc = "source"
    /\ \E choice \in Selections(configured_source_providers) :
         IF choice = "cancel"
         THEN /\ p_pc' = "exit0"
              /\ UNCHANGED << source_provider, available_destinations >>
         ELSE LET destinations == AvailableDestinations(choice, configured_destination_providers)
              IN  /\ source_provider' = choice
                  /\ available_destinations' = destinations
                  /\ p_pc' = IF destinations = << >> THEN "exit1" ELSE "destination"
    /\ UNCHANGED << backVars, factoryVars, selectorVars, appVars, p_registry, p_env,
                    configured_source_providers, configured_destination_providers,
                    destination_provider >>

\* lines 88-94: the destination is chosen and the pair returned
SelectDestination ==
    /\ p_pc = "destination"
    /\ \E choice \in Selections(available_destinations) :
         IF choice = "cancel"
         THEN /\ p_pc' = "exit0"
              /\ UNCHANGED destination_provider
         ELSE /\ destination_provider' = choice
              /\ p_pc' = "returned"
    /\ UNCHANGED << backVars, factoryVars, selectorVars, appVars, p_registry, p_env,
                    configured_source_providers, configured_destination_providers,
                    available_destinations, source_provider >>

NextProviders ==
    \/ CheckConfigured
    \/ SelectSource
    \/ SelectDestination

SpecProviders == InitProviders /\ [][NextProviders]_vars

(* ------------------------------- C28 ---------------------------------- *)

\* a provider that is registered for the role and whose configuration for
\* the role has every key its constructor requires
C28_Usable(role, type) ==
    /\ type \in p_registry[role]
    /\ type \in {"gitea", "gitlab", "github"}
    /\ MissingKeys(type, ProviderConfig(p_env, role, type)) = {}

C28_Pairs ==
    { pair \in {"gitea", "gitlab", "github"} \X {"gitea", "gitlab", "github"} :
        /\ C28_Usable("source", pair[1])
        /\ C28_Usable("destination", pair[2])
        /\ ~(pair[1] = "github" /\ pair[2] = "github") }

\* C28: a pair that select_providers returns has a registered and fully
\* configured source, a registered and fully configured destination, and is
\* not github -> github; when there is no such pair select_providers never
\* gets to the choice of a destination and never returns: the process exits.
C28_ReturnsUsablePair ==
    /\ p_pc = "returned" => << source_provider, destination_provider >> \in C28_Pairs
    /\ (p_pc # "off" /\ C28_Pairs = {}) => p_pc \in {"start", "source", "exit0", "exit1"}

\* GitHub chosen as the source although it is configured as a destination too
C28_Witness ==
    /\ p_pc = "returned"
    /\ source_provider = "github"
    /\ destination_provider = "gitlab"
    /\ configured_destination_providers = << "gitlab", "github" >>

(* ================================ main ================================= *)
(* src/main.py lines 110-261 with InteractiveSelector.run                    *)
(* (src/interactive_selector.py lines 261-321): how the process ends.        *)

Modes == {"setup", "list", "repos", "no_interactive", "interactive"}

\* how a call of a provider method ends
CallOutcomes == {"ok", "ProviderError", "raised"}

\* mutant of ExitOf: a ConfigurationError is only reported
ExitOfConfigurationReported(error) ==
    IF error = "ConfigurationError" THEN "0"
    ELSE IF error = "KeyboardInterrupt" THEN "KeyboardInterrupt"
    ELSE "1"

\* main, lines 249-261: ConfigurationError, ProviderError / MigrationError and
\* every other Exception end in sys.exit(1); KeyboardInterrupt is no
\* Exception and leaves main uncaught
ExitOf(error) ==
    IF error = "KeyboardInterrupt" THEN "KeyboardInterrupt" ELSE "1"

InitApp ==
    /\ BackOff
    /\ FactoryOff
    /\ SelectorOff
    /\ ProviderOff
    /\ a_pc = "start"
    /\ a_mode \in Modes
    /\ a_env_file \in BOOLEAN
    /\ exit_code = "running"
    /\ a_error = "none"
    /\ a_started = FALSE
    /\ a_results = << >>
    /\ a_interrupts = FALSE
    /\ a_listed = 0
    /\ a_selected = 0
    /\ a_prompt = 0

\* lines 165-172: --setup, or no .env file: the template is written and main
\* returns
CreateEnvTemplate ==
    /\ a_pc = "start"
    /\ IF a_mode = "setup" \/ ~a_env_file
       THEN a_pc' = "exited" /\ exit_code' = "0" /\ a_env_file' = TRUE
       ELSE a_pc' = "select" /\ UNCHANGED << exit_code, a_env_file >>
    /\ UNCHANGED << backVars, factoryVars, selectorVars, providerVars, a_mode, a_error,
                    a_started, a_results, a_interrupts, a_listed, a_selected, a_prompt >>

\* line 179: select_providers returns a pair, or ends the process with
\* exit(1) (a role without configured provider) or exit(0) (cancelled)
SelectProviders ==
    /\ a_pc = "select"
    /\ \E out \in {"returned", "exit1", "exit0"} :
         IF out = "returned"
         THEN a_pc' = "create_source" /\ UNCHANGED << exit_code, a_error >>
         ELSE /\ a_pc' = "exited"
              /\ exit_code' = IF out = "exit1" THEN "1" ELSE "0"
              /\ a_error' = IF out = "exit1" THEN "not configured" ELSE "cancelled"
    /\ UNCHANGED << backVars, factoryVars, selectorVars, providerVars, a_mode, a_env_file,
                    a_started, a_results, a_interrupts, a_listed, a_selected, a_prompt >>

\* lines 182-185: the source provider is constructed, or its constructor
\* raises ConfigurationError or lets another exception through
ConstructSource ==
    /\ a_pc = "create_source"
    /\ \E out \in {"constructed", "ConfigurationError", "raised"} :
         IF out = "constructed"
         THEN a_pc' = "create_destination" /\ UNCHANGED << exit_code, a_error >>
         ELSE /\ a_pc' = "exited"
              /\ a_error' = IF out = "raised" THEN "raised in constructor" ELSE out
              /\ exit_code' = ExitOf(out)
    /\ UNCHANGED << backVars, factoryVars, selectorVars, providerVars, a_mode, a_env_file,
                    a_started, a_results, a_interrupts, a_listed, a_selected, a_prompt >>

\* lines 186-208: the destination provider likewise, then the engine is
\* built and the command line decides what is done
ConstructDestination ==
    /\ a_pc = "create_destination"
    /\ \E out \in {"constructed", "ConfigurationError", "raised"} :
         IF out = "constructed"
         THEN /\ a_pc' = IF a_mode = "list" THEN "list"
                         ELSE IF a_mode = "repos" THEN "lookup" ELSE "accessible"
              /\ UNCHANGED << exit_code, a_error >>
         ELSE /\ a_pc' = "exited"
              /\ a_error' = IF out = "raised" THEN "raised in constructor" ELSE out
              /\ exit_code' = ExitOf(out)
    /\ UNCHANGED << backVars, factoryVars, selectorVars, providerVars, a_mode, a_env_file,
                    a_started, a_results, a_interrupts, a_listed, a_selected, a_prompt >>

\* lines 195-208: --list prints the accessible repositories and returns
ListCommand ==
    /\ a_pc = "list"
    /\ \E out \in CallOutcomes, n \in 0..MaxRepos :
         /\ a_pc' = "exited"
         /\ IF out = "ok"
            THEN a_listed' = n /\ exit_code' = "0" /\ UNCHANGED a_error
            ELSE n = 0 /\ a_error' = out /\ exit_code' = ExitOf(out) /\ UNCHANGED a_listed
    /\ UNCHANGED << backVars, factoryVars, selectorVars, providerVars, a_mode, a_env_file,
                    a_started, a_results, a_interrupts, a_selected, a_prompt >>

\* lines 211-225: --repos, every specification is looked up; n are found
LookupSpecified ==
    /\ a_pc = "lookup"
    /\ \E out \in {"ok", "raised"}, n \in 0..MaxRepos :
         IF out = "ok"
         THEN /\ a_selected' = n
              /\ a_pc' = "migrate"
              /\ UNCHANGED << exit_code, a_error >>
         ELSE /\ n = 0
              /\ a_pc' = "exited"
              /\ a_error' = out
              /\ exit_code' = ExitOf(out)
              /\ UNCHANGED a_selected
    /\ UNCHANGED << backVars, factoryVars, selectorVars, providerVars, a_mode, a_env_file,
                    a_started, a_results, a_interrupts, a_listed, a_prompt >>

\* line 230 and, with an empty list, InteractiveSelector.run lines 263-265;
\* __init__ selects the user's own repositories
GetAccessibleRepositories ==
    /\ a_pc = "accessible"
    /\ \E out \in CallOutcomes, n \in 0..MaxRepos, own \in 0..MaxRepos :
         IF out = "ok"
         THEN /\ own <= n
              /\ a_listed' = n
              /\ a_selected' = IF a_mode = "interactive" THEN own ELSE 0
              /\ a_pc' = IF a_mode = "no_interactive" THEN "user"
                         ELSE IF n = 0 THEN "migrate" ELSE "keys"
              /\ UNCHANGED << exit_code, a_error >>
         ELSE /\ n = 0 /\ own = 0
              /\ a_pc' = "exited"
              /\ a_error' = out
              /\ exit_code' = ExitOf(out)
              /\ UNCHANGED << a_listed, a_selected >>
    /\ UNCHANGED << backVars, factoryVars, selectorVars, providerVars, a_mode, a_env_file,
                    a_started, a_results, a_interrupts, a_prompt >>

\* lines 232-236: --no-interactive, the user's own repositories
GetUserRepositories ==
    /\ a_pc = "user"
    /\ \E out \in CallOutcomes, n \in 0..MaxRepos :
         IF out = "ok"
         THEN /\ a_selected' = n
              /\ a_pc' = "migrate"
              /\ UNCHANGED << exit_code, a_error >>
         ELSE /\ n = 0
              /\ a_pc' = "exited"
              /\ a_error' = out
              /\ exit_code' = ExitOf(out)
              /\ UNCHANGED a_selected
    /\ UNCHANGED << backVars, factoryVars, selectorVars, providerVars, a_mode, a_env_file,
                    a_started, a_results, a_interrupts, a_listed, a_prompt >>

\* run, lines 272-285: an arrow, space, a or n; the selection may change
SelectionKey ==
    /\ a_pc = "keys"
    /\ \E n \in 0..a_listed : a_selected' = n
    /\ UNCHANGED << backVars, factoryVars, selectorVars, providerVars, a_pc, a_mode,
                    a_env_file, exit_code, a_error, a_started, a_results, a_interrupts,
                    a_listed, a_prompt >>

\* run, lines 286-287: Enter leaves the key loop
ConfirmKey ==
    /\ a_pc = "keys"
    /\ a_pc' = "question"
    /\ UNCHANGED << backVars, factoryVars, selectorVars, providerVars, a_mode, a_env_file,
                    exit_code, a_error, a_started, a_results, a_interrupts, a_listed,
                    a_selected, a_prompt >>

\* run, lines 288-290: q, sys.exit(0)
QuitKey ==
    /\ a_pc = "keys"
    /\ a_interrupts' = TRUE
    /\ a_error' = "cancelled"
    /\ a_pc' = "exited"
    /\ exit_code' = "0"
    /\ UNCHANGED << backVars, factoryVars, selectorVars, providerVars, a_mode, a_env_file,
                    a_started, a_results, a_listed, a_selected, a_prompt >>

\* Ctrl-C during the key loop. While display_page runs the terminal is in its
\* normal mode and Ctrl-C raises KeyboardInterrupt, caught at line 292:
\* sys.exit(0). While get_key waits (lines 26-38) the terminal is in raw mode
\* (tty.setraw clears ISIG): no signal is sent, read(1) returns '\x03', which
\* matches no branch of lines 272-290, and the loop goes on.
InterruptInKeyLoop(raw) == IF raw THEN "keys" ELSE "exited"

\* the user presses Ctrl-C on the selection screen
InterruptKey ==
    /\ a_pc = "keys"
    /\ a_interrupts' = TRUE
    /\ \E raw \in BOOLEAN :
         /\ a_pc' = InterruptInKeyLoop(raw)
         /\ IF a_pc' = "exited"
            THEN exit_code' = "0" /\ a_error' = "cancelled"
            ELSE UNCHANGED << exit_code, a_error >>
    /\ UNCHANGED << backVars, factoryVars, selectorVars, providerVars, a_mode, a_env_file,
                    a_started, a_results, a_listed, a_selected, a_prompt >>

\* an input() outside any try (lines 193, 228, 314): Ctrl-C raises
\* KeyboardInterrupt and end of input raises EOFError, both leave run
InputFailure(answer) == IF answer = "interrupt" THEN "KeyboardInterrupt" ELSE "EOFError"

\* run, lines 309-321: the rename question
RenameQuestion ==
    /\ a_pc = "question"
    /\ \E answer \in {"yes", "no", "interrupt", "eof"} :
         IF answer \in {"yes", "no"}
         THEN /\ a_pc' = IF answer = "no" THEN "migrate"
                         ELSE IF a_selected = 0 THEN "continue" ELSE "rename"
              /\ UNCHANGED << exit_code, a_error, a_interrupts >>
         ELSE /\ a_pc' = "exited"
              /\ a_error' = InputFailure(answer)
              /\ exit_code' = ExitOf(InputFailure(answer))
              /\ a_interrupts' = (a_interrupts \/ answer = "interrupt")
    /\ UNCHANGED << backVars, factoryVars, selectorVars, providerVars, a_mode, a_env_file,
                    a_started, a_results, a_listed, a_selected, a_prompt >>

\* _rename_repositories_interface, lines 184-211: the prompt of one repository
RenamePrompt ==
    /\ a_pc = "rename"
    /\ \E answer \in {"line", "interrupt", "eof"} :
         IF answer = "line"
         THEN /\ a_prompt' = a_prompt + 1
              /\ a_pc' = IF a_prompt + 1 = a_selected THEN "continue" ELSE "rename"
              /\ UNCHANGED << exit_code, a_error, a_interrupts >>
         ELSE /\ a_pc' = "exited"
              /\ a_error' = InputFailure(answer)
              /\ exit_code' = ExitOf(InputFailure(answer))
              /\ a_interrupts' = (a_interrupts \/ answer = "interrupt")
              /\ UNCHANGED a_prompt
    /\ UNCHANGED << backVars, factoryVars, selectorVars, providerVars, a_mode, a_env_file,
                    a_started, a_results, a_listed, a_selected >>

\* _rename_repositories_interface, line 228: "Press ENTER to continue..."
PressEnter ==
    /\ a_pc = "continue"
    /\ \E answer \in {"line", "interrupt", "eof"} :
         IF answer = "line"
         THEN /\ a_pc' = "migrate"
              /\ UNCHANGED << exit_code, a_error, a_interrupts >>
         ELSE /\ a_pc' = "exited"
              /\ a_error' = InputFailure(answer)
              /\ exit_code' = ExitOf(InputFailure(answer))
              /\ a_interrupts' = (a_interrupts \/ answer = "interrupt")
    /\ UNCHANGED << backVars, factoryVars, selectorVars, providerVars, a_mode, a_env_file,
                    a_started, a_results, a_listed, a_selected, a_prompt >>

\* lines 227, 236, 241: migrate_repositories; with repositories the engine
\* runs create, clone and push for each and returns one value for each
MigrateSelected ==
    /\ a_pc = "migrate"
    /\ a_started' = (a_selected > 0)
    /\ a_results' \in [1..a_selected -> BOOLEAN]
    /\ a_pc' = "summary"
    /\ UNCHANGED << backVars, factoryVars, selectorVars, providerVars, a_mode, a_env_file,
                    exit_code, a_error, a_interrupts, a_listed, a_selected, a_prompt >>

\* lines 243-247: the summary (or "No repositories found"), and main returns
PrintSummary ==
    /\ a_pc = "summary"
    /\ a_pc' = "exited"
    /\ exit_code' = "0"
    /\ UNCHANGED << backVars, factoryVars, selectorVars, providerVars, a_mode, a_env_file,
                    a_error, a_started, a_results, a_interrupts, a_listed, a_selected,
                    a_prompt >>

NextApp ==
    \/ CreateEnvTemplate
    \/ SelectProviders
    \/ ConstructSource
    \/ ConstructDestination
    \/ ListCommand
    \/ LookupSpecified
    \/ GetAccessibleRepositories
    \/ GetUserRepositories
    \/ SelectionKey
    \/ ConfirmKey
    \/ QuitKey
    \/ InterruptKey
    \/ RenameQuestion
    \/ RenamePrompt
    \/ PressEnter
    \/ MigrateSelected
    \/ PrintSummary

SpecApp == InitApp /\ [][NextApp]_vars

(* ------------------------------- C24 ---------------------------------- *)

C24_ConfigurationOrConstruction ==
    {"not configured", "ConfigurationError", "raised in constructor"}

\* C24: a process that ends without an error ends with exit code 0, also
\* when repositories failed to migrate; a configuration error or an error
\* constructing a provider ends it with exit code 1; and whenever the exit
\* code is 1 no repository migration was started.
C24_ExitCodes ==
    /\ (exit_code # "running" /\ a_error = "none") => exit_code = "0"
    /\ (exit_code # "running" /\ a_started) => exit_code = "0"
    /\ a_error \in C24_ConfigurationOrConstruction => (exit_code = "1" /\ ~a_started)
    /\ exit_code = "1" => ~a_started

\* every repository failed and the process ended with exit code 0
C24_Witness ==
    /\ exit_code = "0"
    /\ a_started
    /\ Len(a_results) = 2
    /\ \A k \in DOMAIN a_results : ~a_results[k]

(* ------------------------------- C25 ---------------------------------- *)

\* C25 as stated: once the user has pressed Ctrl-C or the quit key during
\* the interactive selection, no migration is started.
C25_InterruptPreventsMigration == a_interrupts => ~a_started

====
